---- MODULE Spec2Model ----
(***************************************************************************)
(* Dart tournament backend: bracket generation, match advancement with bye *)
(* cascade, the self-report result protocol and dartboard assignment,      *)
(* modelled from backend/api/matches.py, backend/api/tournaments.py and    *)
(* backend/api/dartboards.py.                                              *)
(*                                                                         *)
(* The record store is the tuple of tables (matches, match_players,        *)
(* dartboards, tournament).  A handler is an operator from a store to a    *)
(* store; an action applies it to the committed store.  Board assignment   *)
(* is a transaction of several steps that holds the board's row lock.      *)
(***************************************************************************)
EXTENDS Integers, Sequences, FiniteSets, TLC

(* ------------------------------ bounds --------------------------------- *)
\* largest number of entrants (players, or teams in doubles) of a bracket
MaxEntrants == 4
\* number of dartboards of the venue
NumBoards == 2
\* number of concurrent request sessions
NumSessions == 2
\* number of requests issued after bracket generation
MaxOps == 3

NULL == 0
Unset == "unset"

Boards == 1..NumBoards
Sessions == 1..NumSessions

VARIABLES
    matches,        \* table matches: sequence indexed by match_number
    match_players,  \* table match_players, in insertion order
    dartboards,     \* table dartboards: board number -> is_available
    tournament,     \* the tournament row: status, format, number of entrants
    sess,           \* per session: the assign-board request in flight
    lock,           \* dartboard row locks: board -> holding session or NULL
    race,           \* the batch of assign requests fired together, if any
    last,           \* the last request that returned: operation, input, outcome
    nops            \* number of requests issued so far

vars == <<matches, match_players, dartboards, tournament, sess, lock, race, last, nops>>

(* ----------------------- bracket_position strings ---------------------- *)
\* a bracket_position is the sequence of its characters
DigitChars == <<"0", "1", "2", "3", "4", "5", "6", "7", "8", "9">>

IsDigit(c) == \E i \in 1..10 : DigitChars[i] = c

DigitVal(c) == (CHOOSE i \in 1..10 : DigitChars[i] = c) - 1

\* str(n) of a non-negative integer
RECURSIVE Digits(_)
Digits(n) == IF n < 10 THEN <<DigitChars[n + 1]>>
             ELSE Digits(n \div 10) \o <<DigitChars[(n % 10) + 1]>>

\* f"R{round}M{index}"
FormatRM(r, m) == <<"R">> \o Digits(r) \o <<"M">> \o Digits(m)

\* the greedy \d+ of a regular expression, read from index i of s
RECURSIVE ScanDigits(_, _, _, _)
ScanDigits(s, i, val, cnt) ==
    IF i <= Len(s) /\ IsDigit(s[i])
    THEN ScanDigits(s, i + 1, val * 10 + DigitVal(s[i]), cnt + 1)
    ELSE [val |-> val, cnt |-> cnt, next |-> i]

NoMatch == [ok |-> FALSE, g1 |-> 0, g2 |-> 0]

\* re.match(r'R(\d+)M(\d+)', bp): anchored at the start only
MatchRM(bp) ==
    IF Len(bp) >= 1 /\ bp[1] = "R"
    THEN LET d1 == ScanDigits(bp, 2, 0, 0) IN
         IF d1.cnt >= 1 /\ d1.next <= Len(bp) /\ bp[d1.next] = "M"
         THEN LET d2 == ScanDigits(bp, d1.next + 1, 0, 0) IN
              IF d2.cnt >= 1 THEN [ok |-> TRUE, g1 |-> d1.val, g2 |-> d2.val]
              ELSE NoMatch
         ELSE NoMatch
    ELSE NoMatch

\* bp.startswith("WR") or bp.startswith("LR") or bp.startswith("GF")
IsDoubleElimPosition(bp) ==
    /\ Len(bp) >= 2
    /\ \/ bp[1] = "W" /\ bp[2] = "R"
       \/ bp[1] = "L" /\ bp[2] = "R"
       \/ bp[1] = "G" /\ bp[2] = "F"

\* bp.startswith(prefix)
StartsWith(bp, prefix) ==
    Len(bp) >= Len(prefix) /\ SubSeq(bp, 1, Len(prefix)) = prefix

\* f"WR{round}M{index}" and f"LR{round}M{index}"
FormatWR(r, m) == <<"W">> \o FormatRM(r, m)

FormatLR(r, m) == <<"L">> \o FormatRM(r, m)

GF1 == <<"G", "F", "1">>

GF2 == <<"G", "F", "2">>

\* re.match(r'WR(\d+)M(\d+)', bp)
MatchWR(bp) == IF Len(bp) >= 1 /\ bp[1] = "W" THEN MatchRM(Tail(bp)) ELSE NoMatch

\* re.match(r'LR(\d+)M(\d+)', bp)
MatchLR(bp) == IF Len(bp) >= 1 /\ bp[1] = "L" THEN MatchRM(Tail(bp)) ELSE NoMatch

(* ------------------------------ the store ------------------------------ *)
Store == [matches |-> matches, match_players |-> match_players,
          dartboards |-> dartboards, tournament |-> tournament]

NewMatch(round, number, bp) ==
    [round_number |-> round, match_number |-> number, bracket_position |-> bp,
     status |-> "pending", winner_id |-> NULL, winner_team_id |-> NULL,
     dartboard_id |-> NULL, games |-> 0]

NewMatchPlayer(mid, pid, pos, team, tpos) ==
    [match_id |-> mid, player_id |-> pid, position |-> pos, team_id |-> team,
     team_position |-> tpos, reported_win |-> Unset, arrived_at_board |-> FALSE]

\* Team t of a lucky-draw tournament pairs players 2t-1 and 2t
TeamPlayer1(t) == 2 * t - 1
TeamPlayer2(t) == 2 * t

\* indices into match_players of the rows of match mid, in table order
RECURSIVE RowsOfFrom(_, _, _)
RowsOfFrom(D, mid, i) ==
    IF i > Len(D.match_players) THEN <<>>
    ELSE IF D.match_players[i].match_id = mid
         THEN <<i>> \o RowsOfFrom(D, mid, i + 1)
         ELSE RowsOfFrom(D, mid, i + 1)

\* match.match_players: the rows of the match
RowsOf(D, mid) == RowsOfFrom(D, mid, 1)

PlayersOf(D, mid) ==
    [k \in 1..Len(RowsOf(D, mid)) |-> D.match_players[RowsOf(D, mid)[k]]]

PlayerIds(D, mid) ==
    {D.match_players[i].player_id :
        i \in {j \in 1..Len(D.match_players) : D.match_players[j].match_id = mid}}

TeamIds(D, mid) ==
    {D.match_players[i].team_id :
        i \in {j \in 1..Len(D.match_players) :
                 /\ D.match_players[j].match_id = mid
                 /\ D.match_players[j].team_id # NULL}}

\* select(Match).where(bracket_position == bp): scalar_one_or_none
FindByPosition(D, bp) ==
    LET hits == {i \in 1..Len(D.matches) : D.matches[i].bracket_position = bp} IN
    IF hits = {} THEN NULL ELSE CHOOSE i \in hits : TRUE

SetStatus(D, mid, st) == [D EXCEPT !.matches[mid].status = st]

AddPlayer(D, row) == [D EXCEPT !.match_players = Append(@, row)]

(* ----------------------- tournament completion ------------------------- *)
\* the tournament is left as it is
AutoCompleteTournament_Never(D) == D

\* the tournament is completed whatever its status
AutoCompleteTournament_Always(D) ==
    [D EXCEPT !.tournament.status = "completed", !.tournament.end_time = "utcnow"]

\* _auto_complete_tournament
AutoCompleteTournament(D) ==
    IF D.tournament.status = "in_progress"
    THEN [D EXCEPT !.tournament.status = "completed", !.tournament.end_time = "utcnow"]
    ELSE D

(* ------------------- single elimination advancement -------------------- *)
\* the matches at the two feeder positions of R{round}M{index}
FeedersRM(D, round, index) ==
    {i \in 1..Len(D.matches) :
        D.matches[i].bracket_position \in
            {FormatRM(round - 1, 2 * index - 1), FormatRM(round - 1, 2 * index)}}

\* one completed feeder is taken for all
AllCompleted_Any(D, ids) == \E i \in ids : D.matches[i].status = "completed"

\* all(f.status == MatchStatus.COMPLETED for f in feeders)
AllCompleted(D, ids) == \A i \in ids : D.matches[i].status = "completed"

\* the slots the other way round: 2 for odd indices, 1 for even ones
SlotOf_Swapped(index) == IF index % 2 = 1 THEN 2 ELSE 1

\* position = 1 if current_match_in_round % 2 == 1 else 2
SlotOf(index) == IF index % 2 = 1 THEN 1 ELSE 2

\* the index is halved downwards
NextIndex_Floor(index) == index \div 2

\* next_match_in_round = (current_match_in_round + 1) // 2
NextIndex(index) == (index + 1) \div 2

\* the placement without its test for an existing record
AlreadyPlaced_Unchecked(D, pid, dest) == FALSE

\* "if match.winner_id in existing_player_ids: return"
AlreadyPlaced(D, pid, dest) == pid \in PlayerIds(D, dest)


\* the winner is placed and the destination is left as it is
AdvanceWinner_NoCascade(D, mid) ==
    LET m  == D.matches[mid]
        bp == MatchRM(m.bracket_position)
    IN  IF ~bp.ok THEN D
        ELSE LET nxt == FindByPosition(D, FormatRM(m.round_number + 1, NextIndex(bp.g2)))
             IN  IF nxt = NULL THEN AutoCompleteTournament(D)
                 ELSE IF AlreadyPlaced(D, m.winner_id, nxt) THEN D
                 ELSE AddPlayer(D, NewMatchPlayer(nxt, m.winner_id, SlotOf(bp.g2),
                                                  NULL, NULL))

\* every completion with a winner ends the tournament, wherever the match is
AdvanceWinner_EndsTournament(D, mid) == AutoCompleteTournament(D)

RECURSIVE AdvanceWinner(_, _), CheckByeCascade(_, _)

\* _check_next_match_cascade
CheckNextMatchCascade(D, mid) ==
    LET m  == D.matches[mid]
        bp == MatchRM(m.bracket_position)
    IN  IF ~bp.ok THEN D
        ELSE LET nxt == FindByPosition(D, FormatRM(m.round_number + 1, NextIndex(bp.g2)))
             IN  IF nxt # NULL THEN CheckByeCascade(D, nxt) ELSE D

\* _check_bye_cascade
CheckByeCascade(D, mid) ==
    LET m  == D.matches[mid]
        bp == MatchRM(m.bracket_position)
    IN  IF ~bp.ok THEN D
        ELSE IF bp.g1 <= 1 THEN D
        ELSE LET feeders == FeedersRM(D, bp.g1, bp.g2)
                 rows    == PlayersOf(D, mid)
             IN  IF feeders = {} \/ ~AllCompleted(D, feeders) THEN D
                 ELSE IF Len(rows) = 1 /\ m.status = "pending"
                 THEN AdvanceWinner(
                        [D EXCEPT !.matches[mid].status = "completed",
                                  !.matches[mid].winner_id = rows[1].player_id],
                        mid)
                 ELSE IF Len(rows) = 0 /\ m.status = "pending"
                 THEN CheckNextMatchCascade(SetStatus(D, mid, "completed"), mid)
                 ELSE D

\* _advance_winner_in_bracket
AdvanceWinner(D, mid) ==
    LET m  == D.matches[mid]
        bp == MatchRM(m.bracket_position)
    IN  IF ~bp.ok THEN D
        ELSE LET nxt == FindByPosition(D, FormatRM(m.round_number + 1, NextIndex(bp.g2)))
             IN  IF nxt = NULL THEN AutoCompleteTournament(D)
                 ELSE IF AlreadyPlaced(D, m.winner_id, nxt) THEN D
                 ELSE CheckByeCascade(
                        AddPlayer(D, NewMatchPlayer(nxt, m.winner_id, SlotOf(bp.g2),
                                                    NULL, NULL)),
                        nxt)

(* ------------------------- doubles advancement ------------------------- *)
\* "if match.winner_team_id in existing_team_ids: return"
TeamAlreadyPlaced(D, team, dest) == team \in TeamIds(D, dest)

RECURSIVE AdvanceTeam(_, _), CheckTeamByeCascade(_, _)

\* _check_team_next_match_cascade
CheckTeamNextMatchCascade(D, mid) ==
    LET m  == D.matches[mid]
        bp == MatchRM(m.bracket_position)
    IN  IF ~bp.ok THEN D
        ELSE LET nxt == FindByPosition(D, FormatRM(m.round_number + 1, NextIndex(bp.g2)))
             IN  IF nxt # NULL THEN CheckTeamByeCascade(D, nxt) ELSE D

\* _check_team_bye_cascade
CheckTeamByeCascade(D, mid) ==
    LET m  == D.matches[mid]
        bp == MatchRM(m.bracket_position)
    IN  IF ~bp.ok THEN D
        ELSE IF bp.g1 <= 1 THEN D
        ELSE LET feeders == FeedersRM(D, bp.g1, bp.g2)
                 rows    == PlayersOf(D, mid)
                 teams   == TeamIds(D, mid)
             IN  IF feeders = {} \/ ~AllCompleted(D, feeders) THEN D
                 ELSE IF Cardinality(teams) = 1 /\ m.status = "pending"
                 THEN AdvanceTeam(
                        [D EXCEPT !.matches[mid].status = "completed",
                                  !.matches[mid].winner_team_id = CHOOSE t \in teams : TRUE,
                                  !.matches[mid].winner_id = rows[1].player_id],
                        mid)
                 ELSE IF Cardinality(teams) = 0 /\ m.status = "pending"
                 THEN CheckTeamNextMatchCascade(SetStatus(D, mid, "completed"), mid)
                 ELSE D

\* _advance_team_in_bracket
AdvanceTeam(D, mid) ==
    LET m  == D.matches[mid]
        bp == MatchRM(m.bracket_position)
    IN  IF m.winner_team_id = NULL THEN D
        ELSE IF ~bp.ok THEN D
        ELSE LET nxt == FindByPosition(D, FormatRM(m.round_number + 1, NextIndex(bp.g2)))
                 t   == m.winner_team_id
             IN  IF nxt = NULL THEN AutoCompleteTournament(D)
                 ELSE IF TeamAlreadyPlaced(D, t, nxt) THEN D
                 ELSE CheckTeamByeCascade(
                        AddPlayer(
                          AddPlayer(D, NewMatchPlayer(nxt, TeamPlayer1(t), SlotOf(bp.g2), t, 1)),
                          NewMatchPlayer(nxt, TeamPlayer2(t), SlotOf(bp.g2), t, 2)),
                        nxt)

(* ------------------- double elimination advancement -------------------- *)
\* _get_loser_id: the first occupant that is not the winner
GetLoserId(D, mid) ==
    LET rows == PlayersOf(D, mid)
        hits == {k \in 1..Len(rows) : rows[k].player_id # D.matches[mid].winner_id}
    IN  IF D.matches[mid].winner_id = NULL \/ hits = {} THEN NULL
        ELSE rows[CHOOSE k \in hits : \A j \in hits : k <= j].player_id

\* select(Match).where(bracket_position.like(prefix%))
\*   .order_by(round_number.desc()).first()
LastRoundOf(D, prefix) ==
    LET hits == {i \in 1..Len(D.matches) : StartsWith(D.matches[i].bracket_position, prefix)}
    IN  IF hits = {} THEN NULL
        ELSE CHOOSE i \in hits :
                \A j \in hits : D.matches[i].round_number >= D.matches[j].round_number

\* the feeder positions that _all_feeders_done derives from a position
FeederPositions(D, bp) ==
    LET wb == MatchWR(bp)
        lb == MatchLR(bp)
        wf == LastRoundOf(D, <<"W", "R">>)
        lf == LastRoundOf(D, <<"L", "R">>)
    IN  IF wb.ok
        THEN IF wb.g1 >= 2
             THEN {FormatWR(wb.g1 - 1, 2 * wb.g2 - 1), FormatWR(wb.g1 - 1, 2 * wb.g2)}
             ELSE {}
        ELSE IF lb.ok
        THEN IF lb.g1 = 1
             THEN {FormatWR(1, 2 * lb.g2 - 1), FormatWR(1, 2 * lb.g2)}
             ELSE IF lb.g1 % 2 = 0
             THEN {FormatLR(lb.g1 - 1, lb.g2), FormatWR((lb.g1 \div 2) + 1, lb.g2)}
             ELSE {FormatLR(lb.g1 - 1, 2 * lb.g2 - 1), FormatLR(lb.g1 - 1, 2 * lb.g2)}
        ELSE IF bp = GF1
        THEN (IF wf # NULL THEN {D.matches[wf].bracket_position} ELSE {})
             \cup (IF lf # NULL THEN {D.matches[lf].bracket_position} ELSE {})
        ELSE IF bp = GF2 THEN {GF1}
        ELSE {}

\* _all_feeders_done
AllFeedersDone(D, mid) ==
    LET positions == FeederPositions(D, D.matches[mid].bracket_position)
        feeders   == {i \in 1..Len(D.matches) : D.matches[i].bracket_position \in positions}
    IN  IF positions = {} \/ feeders = {} THEN TRUE
        ELSE AllCompleted(D, feeders)

\* the downstream positions that _cascade_double_elim_empty looks at, in order
DownstreamPositions(bp) ==
    LET wb == MatchWR(bp)
        lb == MatchLR(bp)
    IN  IF wb.ok
        THEN <<FormatWR(wb.g1 + 1, NextIndex(wb.g2)),
               IF wb.g1 = 1 THEN FormatLR(1, NextIndex(wb.g2))
               ELSE FormatLR(2 * (wb.g1 - 1), wb.g2)>>
        ELSE IF lb.ok
        THEN IF lb.g1 % 2 = 1 THEN <<FormatLR(lb.g1 + 1, lb.g2)>>
             ELSE <<FormatLR(lb.g1 + 1, NextIndex(lb.g2))>>
        ELSE <<>>

\* a call of _place_player_in_match that an advancement makes
Placement(pid, bp, pos) == [player_id |-> pid, bracket_position |-> bp, position |-> pos]

\* _advance_wb_match: the winner to the next winners round or to GF1, then
\* the loser to the losers bracket
AdvanceWB(D, mid) ==
    LET m      == D.matches[mid]
        wb     == MatchWR(m.bracket_position)
        loser  == GetLoserId(D, mid)
        nextbp == FormatWR(wb.g1 + 1, NextIndex(wb.g2))
        isnext == FindByPosition(D, nextbp) # NULL
        lf     == LastRoundOf(D, <<"L", "R">>)
    IN  IF ~wb.ok THEN <<>>
        ELSE (IF m.winner_id = NULL THEN <<>>
              ELSE IF isnext THEN <<Placement(m.winner_id, nextbp, SlotOf(wb.g2))>>
              ELSE <<Placement(m.winner_id, GF1, 1)>>)
             \o
             (IF loser = NULL THEN <<>>
              ELSE IF wb.g1 = 1
              THEN <<Placement(loser, FormatLR(1, NextIndex(wb.g2)), SlotOf(wb.g2))>>
              ELSE IF ~isnext
              THEN (IF lf # NULL
                    THEN <<Placement(loser, D.matches[lf].bracket_position, 2)>>
                    ELSE <<>>)
              ELSE <<Placement(loser, FormatLR(2 * (wb.g1 - 1), wb.g2), 2)>>)

\* the index is halved after every losers round
AdvanceLB_AlwaysHalved(D, mid) ==
    LET m      == D.matches[mid]
        lb     == MatchLR(m.bracket_position)
        nextbp == FormatLR(lb.g1 + 1, NextIndex(lb.g2))
        pos    == IF lb.g1 % 2 = 1 THEN 1 ELSE SlotOf(lb.g2)
    IN  IF ~lb.ok THEN <<>>
        ELSE IF m.winner_id = NULL THEN <<>>
        ELSE IF FindByPosition(D, nextbp) # NULL
        THEN <<Placement(m.winner_id, nextbp, pos)>>
        ELSE <<Placement(m.winner_id, GF1, 2)>>

\* _advance_lb_match: the winner to the next losers round or to GF1
AdvanceLB(D, mid) ==
    LET m      == D.matches[mid]
        lb     == MatchLR(m.bracket_position)
        nextbp == IF lb.g1 % 2 = 1 THEN FormatLR(lb.g1 + 1, lb.g2)
                  ELSE FormatLR(lb.g1 + 1, NextIndex(lb.g2))
        pos    == IF lb.g1 % 2 = 1 THEN 1 ELSE SlotOf(lb.g2)
    IN  IF ~lb.ok THEN <<>>
        ELSE IF m.winner_id = NULL THEN <<>>
        ELSE IF FindByPosition(D, nextbp) # NULL
        THEN <<Placement(m.winner_id, nextbp, pos)>>
        ELSE <<Placement(m.winner_id, GF1, 2)>>

\* the winner is taken to have come from the winners bracket
WinnerPosition_First(D, mid) == 1

\* winner_position: the position of the first row of the winner, or NULL
WinnerPosition(D, mid) ==
    LET rows == PlayersOf(D, mid)
        hits == {k \in 1..Len(rows) : rows[k].player_id = D.matches[mid].winner_id}
    IN  IF hits = {} THEN NULL
        ELSE rows[CHOOSE k \in hits : \A j \in hits : k <= j].position

\* "Cancel GF2": only a pending GF2 is cancelled
CancelReset(D) ==
    LET gf2 == FindByPosition(D, GF2) IN
    IF gf2 # NULL /\ D.matches[gf2].status = "pending"
    THEN SetStatus(D, gf2, "cancelled")
    ELSE D

\* _advance_gf1, "if winner_position == 1": the winners-bracket champion won
ChampionWon(D, mid) ==
    D.matches[mid].winner_id # NULL /\ WinnerPosition(D, mid) = 1

\* _advance_gf1, else branch: both competitors go to the reset match, the
\* loser first
AdvanceGF1(D, mid) ==
    LET m     == D.matches[mid]
        loser == GetLoserId(D, mid)
    IN  IF m.winner_id = NULL \/ ChampionWon(D, mid) THEN <<>>
        ELSE (IF loser # NULL THEN <<Placement(loser, GF2, 1)>> ELSE <<>>)
             \o <<Placement(m.winner_id, GF2, 2)>>

\* _advance_gf2
AdvanceGF2(D, mid) == AutoCompleteTournament(D)

\* the placements that the advancement of match mid makes, in order
Placements(D, mid) ==
    LET bp == D.matches[mid].bracket_position IN
    IF StartsWith(bp, <<"W", "R">>) THEN AdvanceWB(D, mid)
    ELSE IF StartsWith(bp, <<"L", "R">>) THEN AdvanceLB(D, mid)
    ELSE IF bp = GF1 THEN AdvanceGF1(D, mid)
    ELSE <<>>

RECURSIVE PlacePlayerInMatch(_, _, _, _), CheckDoubleElimByeCascade(_, _),
          CascadeInto(_, _, _), AdvanceDoubleElimWinner(_, _), PlaceAll(_, _, _)

\* _place_player_in_match: a missing target is passed over in silence
PlacePlayerInMatch(D, pid, bp, pos) ==
    LET target == FindByPosition(D, bp) IN
    IF target = NULL THEN D
    ELSE IF pid \in PlayerIds(D, target) THEN D
    ELSE CheckDoubleElimByeCascade(
            AddPlayer(D, NewMatchPlayer(target, pid, pos, NULL, NULL)), target)

\* the calls of _place_player_in_match, one after the other
PlaceAll(D, ps, k) ==
    IF k > Len(ps) THEN D
    ELSE PlaceAll(PlacePlayerInMatch(D, ps[k].player_id, ps[k].bracket_position,
                                     ps[k].position),
                  ps, k + 1)

\* the loop of _cascade_double_elim_empty over the downstream positions
CascadeInto(D, ps, k) ==
    IF k > Len(ps) THEN D
    ELSE LET down == FindByPosition(D, ps[k]) IN
         CascadeInto(IF down # NULL THEN CheckDoubleElimByeCascade(D, down) ELSE D,
                     ps, k + 1)

\* _cascade_double_elim_empty
CascadeDoubleElimEmpty(D, mid) ==
    CascadeInto(D, DownstreamPositions(D.matches[mid].bracket_position), 1)

\* _check_double_elim_bye_cascade
CheckDoubleElimByeCascade(D, mid) ==
    LET m    == D.matches[mid]
        rows == PlayersOf(D, mid)
    IN  IF StartsWith(m.bracket_position, <<"G", "F">>) THEN D
        ELSE IF StartsWith(m.bracket_position, <<"W", "R", "1", "M">>) THEN D
        ELSE IF ~AllFeedersDone(D, mid) THEN D
        ELSE IF Len(rows) = 1 /\ m.status = "pending"
        THEN AdvanceDoubleElimWinner(
                [D EXCEPT !.matches[mid].status = "completed",
                          !.matches[mid].winner_id = rows[1].player_id],
                mid)
        ELSE IF Len(rows) = 0 /\ m.status = "pending"
        THEN CascadeDoubleElimEmpty(SetStatus(D, mid, "completed"), mid)
        ELSE D

\* _advance_double_elim_winner
AdvanceDoubleElimWinner(D, mid) ==
    LET bp == D.matches[mid].bracket_position IN
    IF bp = GF2 THEN AdvanceGF2(D, mid)
    ELSE IF bp = GF1 /\ ChampionWon(D, mid) THEN AutoCompleteTournament(CancelReset(D))
    ELSE PlaceAll(D, Placements(D, mid), 1)

\* the dispatch of update_match and report_match_result on a completed match
AdvanceCompleted(D, mid) ==
    LET m == D.matches[mid] IN
    IF m.winner_team_id # NULL THEN AdvanceTeam(D, mid)
    ELSE IF m.winner_id # NULL
         THEN IF IsDoubleElimPosition(m.bracket_position)
              THEN AdvanceDoubleElimWinner(D, mid)
              ELSE AdvanceWinner(D, mid)
         ELSE D

(* ----------------------------- auto-assign ----------------------------- *)
\* ORDER BY round_number, match_number
Before(D, i, j) ==
    \/ D.matches[i].round_number < D.matches[j].round_number
    \/ /\ D.matches[i].round_number = D.matches[j].round_number
       /\ D.matches[i].match_number < D.matches[j].match_number

RECURSIVE OrderMatches(_, _)
OrderMatches(D, ids) ==
    IF ids = {} THEN <<>>
    ELSE LET first == CHOOSE i \in ids : \A j \in ids \ {i} : Before(D, i, j)
         IN  <<first>> \o OrderMatches(D, ids \ {first})

\* the boards with the highest number first
RECURSIVE OrderBoards_Descending(_)
OrderBoards_Descending(bs) ==
    IF bs = {} THEN <<>>
    ELSE LET first == CHOOSE b \in bs : \A c \in bs : b >= c
         IN  <<first>> \o OrderBoards_Descending(bs \ {first})

\* ORDER BY Dartboard.number
RECURSIVE OrderBoards(_)
OrderBoards(bs) ==
    IF bs = {} THEN <<>>
    ELSE LET first == CHOOSE b \in bs : \A c \in bs : b <= c
         IN  <<first>> \o OrderBoards(bs \ {first})

\* required = 4 if is_doubles else 2
RequiredPlayers(D, mid) == IF TeamIds(D, mid) # {} THEN 4 ELSE 2

\* every pending match without a board, whatever its occupancy
IsReady_Unoccupied(D, mid) ==
    /\ D.matches[mid].status = "pending"
    /\ D.matches[mid].dartboard_id = NULL

\* a ready match: PENDING, no dartboard, enough players
IsReady(D, mid) ==
    /\ D.matches[mid].status = "pending"
    /\ D.matches[mid].dartboard_id = NULL
    /\ Len(RowsOf(D, mid)) >= RequiredPlayers(D, mid)

ReadyMatches(D) == OrderMatches(D, {i \in 1..Len(D.matches) : IsReady(D, i)})

AvailableBoards(D) == OrderBoards({b \in Boards : D.dartboards[b]})

Min2(a, b) == IF a <= b THEN a ELSE b

\* the pairing zip(ready_matches, available_boards)
RECURSIVE AssignPairs(_, _, _, _)
AssignPairs(D, ready, boards, k) ==
    IF k > Min2(Len(ready), Len(boards)) THEN D
    ELSE AssignPairs([D EXCEPT !.matches[ready[k]].dartboard_id = boards[k],
                               !.dartboards[boards[k]] = FALSE],
                     ready, boards, k + 1)

\* _auto_assign_boards
AutoAssignBoards(D) == AssignPairs(D, ReadyMatches(D), AvailableBoards(D), 1)

(* -------------------------- bracket generation ------------------------- *)
\* the round sizes with floor(remaining / 2) in place of the ceiling
RECURSIVE RoundSizes_Floor(_)
RoundSizes_Floor(remaining) ==
    IF remaining > 1
    THEN <<IF remaining = 2 THEN 1 ELSE remaining \div 2>>
         \o RoundSizes_Floor(IF remaining = 2 THEN 1 ELSE remaining \div 2)
    ELSE <<>>

\* the round_sizes loop: ceil(remaining / 2) until one match remains
RECURSIVE RoundSizes(_)
RoundSizes(remaining) ==
    IF remaining > 1
    THEN <<(remaining + 1) \div 2>> \o RoundSizes((remaining + 1) \div 2)
    ELSE <<>>

\* the Match rows of all rounds, numbered by one global match_number
RECURSIVE CreateMatches(_, _, _)
CreateMatches(sizes, round, number) ==
    IF round > Len(sizes) THEN <<>>
    ELSE [k \in 1..sizes[round] |-> NewMatch(round, number + k - 1, FormatRM(round, k))]
         \o CreateMatches(sizes, round + 1, number + sizes[round])

\* seeding of round 1 with players: entry 2k-1 in position 1, entry 2k in position 2
RECURSIVE SeedPlayers(_, _, _)
SeedPlayers(n, first, k) ==
    IF k > first THEN <<>>
    ELSE (IF 2 * k - 1 <= n THEN <<NewMatchPlayer(k, 2 * k - 1, 1, NULL, NULL)>> ELSE <<>>)
         \o (IF 2 * k <= n THEN <<NewMatchPlayer(k, 2 * k, 2, NULL, NULL)>> ELSE <<>>)
         \o SeedPlayers(n, first, k + 1)

\* seeding of round 1 with teams: both members of a team share the position
TeamRows(mid, t, pos) ==
    <<NewMatchPlayer(mid, TeamPlayer1(t), pos, t, 1),
      NewMatchPlayer(mid, TeamPlayer2(t), pos, t, 2)>>

RECURSIVE SeedTeams(_, _, _)
SeedTeams(n, first, k) ==
    IF k > first THEN <<>>
    ELSE (IF 2 * k - 1 <= n THEN TeamRows(k, 2 * k - 1, 1) ELSE <<>>)
         \o (IF 2 * k <= n THEN TeamRows(k, 2 * k, 2) ELSE <<>>)
         \o SeedTeams(n, first, k + 1)

\* the round-1 byes are left as they were seeded
CompleteByes_Skipped(D, first, k) == D

\* the loop that completes the round-1 byes and advances their winners
RECURSIVE CompleteByes(_, _, _)
CompleteByes(D, first, k) ==
    IF k > first THEN D
    ELSE LET rows == PlayersOf(D, k) IN
         CompleteByes(
            IF Len(rows) = 1
            THEN AdvanceWinner([D EXCEPT !.matches[k].status = "completed",
                                         !.matches[k].winner_id = rows[1].player_id], k)
            ELSE IF Len(rows) = 0 THEN SetStatus(D, k, "completed")
            ELSE D,
            first, k + 1)

RECURSIVE CompleteTeamByes(_, _, _)
CompleteTeamByes(D, first, k) ==
    IF k > first THEN D
    ELSE LET rows  == PlayersOf(D, k)
             teams == TeamIds(D, k)
         IN
         CompleteTeamByes(
            IF Cardinality(teams) = 1
            THEN AdvanceTeam([D EXCEPT !.matches[k].status = "completed",
                                       !.matches[k].winner_team_id = CHOOSE t \in teams : TRUE,
                                       !.matches[k].winner_id = rows[1].player_id], k)
            ELSE IF Cardinality(teams) = 0 THEN SetStatus(D, k, "completed")
            ELSE D,
            first, k + 1)

\* _generate_single_elimination_bracket; _generate_double_elimination_bracket
\* delegates to it, so no WR/LR/GF position is ever created
GenerateSingleElimination(D, n) ==
    LET sizes == RoundSizes(n)
        D1 == [D EXCEPT !.matches = CreateMatches(sizes, 1, 1),
                        !.match_players = SeedPlayers(n, sizes[1], 1)]
    IN  CompleteByes(D1, sizes[1], 1)

\* _generate_lucky_draw_doubles_bracket
GenerateLuckyDrawDoubles(D, n) ==
    LET sizes == RoundSizes(n)
        D1 == [D EXCEPT !.matches = CreateMatches(sizes, 1, 1),
                        !.match_players = SeedTeams(n, sizes[1], 1)]
    IN  CompleteTeamByes(D1, sizes[1], 1)

\* f"RR{match_number}"
FormatRR(k) == <<"R", "R">> \o Digits(k)

\* for i in range(num_players): for j in range(i + 1, num_players)
RECURSIVE RoundRobinPairs(_, _, _)
RoundRobinPairs(n, i, j) ==
    IF i >= n THEN <<>>
    ELSE IF j > n THEN RoundRobinPairs(n, i + 1, i + 2)
    ELSE <<(<<i, j>>)>> \o RoundRobinPairs(n, i, j + 1)

\* the two occupant records of every pairing, in the order of creation
RECURSIVE RoundRobinPlayers(_, _)
RoundRobinPlayers(pairs, k) ==
    IF k > Len(pairs) THEN <<>>
    ELSE <<NewMatchPlayer(k, pairs[k][1], 1, NULL, NULL),
           NewMatchPlayer(k, pairs[k][2], 2, NULL, NULL)>>
         \o RoundRobinPlayers(pairs, k + 1)

\* _generate_round_robin_bracket: every entrant meets every other, all
\* matches in round 1
GenerateRoundRobin(D, n) ==
    LET pairs == RoundRobinPairs(n, 1, 2) IN
    [D EXCEPT !.matches = [k \in 1..Len(pairs) |-> NewMatch(1, k, FormatRR(k))],
              !.match_players = RoundRobinPlayers(pairs, 1)]

Formats == {"single_elimination", "lucky_draw_doubles"}

\* generate_bracket: rejected unless in registration with at least 2 entrants
GenerateBracket(D, fmt, n) ==
    IF D.tournament.status # "registration" \/ n < 2 THEN D
    ELSE LET D0 == [D EXCEPT !.tournament.format = fmt, !.tournament.entrants = n]
             D1 == IF fmt = "lucky_draw_doubles" THEN GenerateLuckyDrawDoubles(D0, n)
                   ELSE IF fmt = "round_robin" THEN GenerateRoundRobin(D0, n)
                   ELSE GenerateSingleElimination(D0, n)
         IN  [D1 EXCEPT !.tournament.status = "in_progress"]

\* the double-elimination bracket of four entrants: two winners rounds, one
\* losers round, the grand final GF1 and, when it is created beforehand, the
\* reset match GF2; winners round 1 is seeded like round 1 of single
\* elimination
DoubleElimEntrants == 4

DoubleElimMatches(reset) ==
    <<NewMatch(1, 1, FormatWR(1, 1)), NewMatch(1, 2, FormatWR(1, 2)),
      NewMatch(2, 3, FormatWR(2, 1)), NewMatch(1, 4, FormatLR(1, 1)),
      NewMatch(3, 5, GF1)>>
    \o (IF reset THEN <<NewMatch(4, 6, GF2)>> ELSE <<>>)

BuildDoubleElimination(D, reset) ==
    IF D.tournament.status # "registration" THEN D
    ELSE [D EXCEPT !.matches = DoubleElimMatches(reset),
                   !.match_players = SeedPlayers(DoubleElimEntrants, 2, 1),
                   !.tournament.format = "double_elimination",
                   !.tournament.entrants = DoubleElimEntrants,
                   !.tournament.status = "in_progress"]

\* the bracket of eight entrants: three winners rounds, four losers rounds
\* and the two grand-final matches, all created at generation
WideEntrants == 8

WideMatches ==
    <<NewMatch(1, 1, FormatWR(1, 1)), NewMatch(1, 2, FormatWR(1, 2)),
      NewMatch(1, 3, FormatWR(1, 3)), NewMatch(1, 4, FormatWR(1, 4)),
      NewMatch(2, 5, FormatWR(2, 1)), NewMatch(2, 6, FormatWR(2, 2)),
      NewMatch(3, 7, FormatWR(3, 1)),
      NewMatch(1, 8, FormatLR(1, 1)), NewMatch(1, 9, FormatLR(1, 2)),
      NewMatch(2, 10, FormatLR(2, 1)), NewMatch(2, 11, FormatLR(2, 2)),
      NewMatch(3, 12, FormatLR(3, 1)), NewMatch(4, 13, FormatLR(4, 1)),
      NewMatch(5, 14, GF1), NewMatch(6, 15, GF2)>>

BuildWideDoubleElimination(D) ==
    IF D.tournament.status # "registration" THEN D
    ELSE [D EXCEPT !.matches = WideMatches,
                   !.match_players = SeedPlayers(WideEntrants, 4, 1),
                   !.tournament.format = "double_elimination",
                   !.tournament.entrants = WideEntrants,
                   !.tournament.status = "in_progress"]

\* update_tournament (PATCH /tournaments/{id}) with a status in its body
UpdateTournament(D, st) == [D EXCEPT !.tournament.status = st]

(* ------------------------------ handlers ------------------------------- *)
\* a field that a PATCH body leaves out (exclude_unset): a status, an id
Keep == "keep"
KeepId == -1

Ok(D) == [store |-> D, result |-> "ok"]
Rejected(D, code) == [store |-> D, result |-> code]

\* the board of a completed match is not released
ReleaseOnCompletion_Never(D, mid) == D

\* "Auto-release dartboard when match is completed": the board is made
\* available, match.dartboard_id is left as it is
ReleaseOnCompletion(D, mid) ==
    IF D.matches[mid].dartboard_id # NULL
    THEN [D EXCEPT !.dartboards[D.matches[mid].dartboard_id] = TRUE]
    ELSE D

\* for field, value in update_data.items(): setattr(match, field, value)
ApplyUpdate(m, upd) ==
    [m EXCEPT !.status = IF upd.status = Keep THEN @ ELSE upd.status,
              !.winner_id = IF upd.winner_id = KeepId THEN @ ELSE upd.winner_id,
              !.winner_team_id = IF upd.winner_team_id = KeepId THEN @ ELSE upd.winner_team_id]

\* every winner is accepted
ValidUpdate_Unchecked(D, mid, upd) == TRUE

\* the validation of winner_id and winner_team_id in update_match
ValidUpdate(D, mid, upd) ==
    /\ upd.winner_id \in {KeepId, NULL} \/ upd.winner_id \in PlayerIds(D, mid)
    /\ upd.winner_team_id \in {KeepId, NULL} \/ upd.winner_team_id \in TeamIds(D, mid)

\* update_match (PATCH /matches/{id}), the administrative override, up to
\* the call of _auto_assign_boards
UpdateMatchCore(D, mid, upd) ==
    IF mid \notin 1..Len(D.matches) THEN Rejected(D, "404")
    ELSE IF ~ValidUpdate(D, mid, upd) THEN Rejected(D, "400")
    ELSE LET D1 == [D EXCEPT !.matches[mid] = ApplyUpdate(@, upd)] IN
         IF D1.matches[mid].status = "completed"
         THEN Ok(AdvanceCompleted(ReleaseOnCompletion(D1, mid), mid))
         ELSE Ok(D1)

\* "if match.status == MatchStatus.COMPLETED: await _auto_assign_boards(...)"
ThenAutoAssign(r, mid) ==
    IF r.result = "ok" /\ r.store.matches[mid].status = "completed"
    THEN Ok(AutoAssignBoards(r.store))
    ELSE r

\* update_match
UpdateMatch(D, mid, upd) == ThenAutoAssign(UpdateMatchCore(D, mid, upd), mid)

\* index into match_players of the row of player pid in match mid, or NULL
RowOfPlayer(D, mid, pid) ==
    LET rows == RowsOf(D, mid)
        hits == {k \in 1..Len(rows) : D.match_players[rows[k]].player_id = pid}
    IN  IF hits = {} THEN NULL ELSE rows[CHOOSE k \in hits : \A j \in hits : k <= j]

\* the first row of the match that belongs to another player
OtherPlayerRow(D, mid, pid) ==
    LET rows == RowsOf(D, mid)
        hits == {k \in 1..Len(rows) : D.match_players[rows[k]].player_id # pid}
    IN  IF hits = {} THEN NULL ELSE rows[CHOOSE k \in hits : \A j \in hits : k <= j]

\* the first row of another team that carries a report
OtherTeamReporterRow(D, mid, team) ==
    LET rows == RowsOf(D, mid)
        hits == {k \in 1..Len(rows) :
                    /\ D.match_players[rows[k]].team_id # NULL
                    /\ D.match_players[rows[k]].team_id # team
                    /\ D.match_players[rows[k]].reported_win # Unset}
    IN  IF hits = {} THEN NULL ELSE rows[CHOOSE k \in hits : \A j \in hits : k <= j]

\* only the report of the team's first member is looked at
TeamHasReported_FirstMember(D, mid, team) ==
    \E i \in 1..Len(D.match_players) :
        /\ D.match_players[i].match_id = mid
        /\ D.match_players[i].team_id = team
        /\ D.match_players[i].team_position = 1
        /\ D.match_players[i].reported_win # Unset

\* "if any(mp.reported_win is not None for mp in teammates)"
TeamHasReported(D, mid, team) ==
    \E i \in 1..Len(D.match_players) :
        /\ D.match_players[i].match_id = mid
        /\ D.match_players[i].team_id = team
        /\ D.match_players[i].reported_win # Unset

ReportValue(won) == IF won THEN "true" ELSE "false"

\* only the branch "reporter says won, other says lost" is taken
ReportsAgree_ReporterWon(won, other) == won /\ other = "false"

\* the two reports agree: exactly one of reporter and other side claims the win
ReportsAgree(won, other) == (won /\ other = "false") \/ (~won /\ other = "true")

\* the match is marked disputed, the reports are left standing
Dispute_KeepReports(D, mid, row, other) == [D EXCEPT !.matches[mid].status = "disputed"]

\* both reports are reset and the match is marked disputed
Dispute(D, mid, row, other) ==
    [D EXCEPT !.matches[mid].status = "disputed",
              !.match_players[row].reported_win = Unset,
              !.match_players[other].reported_win = Unset]

\* the singles branch of report_match_result, after the reporter was found
ReportSingles(D, mid, pid, won, row) ==
    IF D.match_players[row].reported_win # Unset THEN Rejected(D, "400")
    ELSE LET D1    == [D EXCEPT !.match_players[row].reported_win = ReportValue(won)]
             other == OtherPlayerRow(D, mid, pid)
         IN  IF other = NULL \/ D1.match_players[other].reported_win = Unset THEN Ok(D1)
             ELSE IF ReportsAgree(won, D1.match_players[other].reported_win)
             THEN LET w  == IF won THEN pid ELSE D1.match_players[other].player_id
                      D2 == [D1 EXCEPT !.matches[mid].status = "completed",
                                       !.matches[mid].winner_id = w]
                      D3 == ReleaseOnCompletion(D2, mid)
                  IN  Ok(IF IsDoubleElimPosition(D3.matches[mid].bracket_position)
                         THEN AdvanceDoubleElimWinner(D3, mid)
                         ELSE AdvanceWinner(D3, mid))
             ELSE Ok(Dispute(D1, mid, row, other))

\* the doubles branch of report_match_result
ReportDoubles(D, mid, pid, won, row) ==
    LET team == D.match_players[row].team_id IN
    IF TeamHasReported(D, mid, team) THEN Rejected(D, "400")
    ELSE LET D1    == [D EXCEPT !.match_players[row].reported_win = ReportValue(won)]
             other == OtherTeamReporterRow(D, mid, team)
         IN  IF other = NULL THEN Ok(D1)
             ELSE IF ReportsAgree(won, D1.match_players[other].reported_win)
             THEN LET wt == IF won THEN team ELSE D1.match_players[other].team_id
                      D2 == [D1 EXCEPT !.matches[mid].status = "completed",
                                       !.matches[mid].winner_team_id = wt,
                                       !.matches[mid].winner_id = TeamPlayer1(wt)]
                  IN  Ok(AdvanceTeam(ReleaseOnCompletion(D2, mid), mid))
             ELSE Ok(Dispute(D1, mid, row, other))

\* report_match_result (POST /matches/{id}/report-result?i_won=), up to the
\* call of _auto_assign_boards
ReportMatchResultCore(D, mid, pid, won) ==
    IF mid \notin 1..Len(D.matches) THEN Rejected(D, "404")
    ELSE IF D.matches[mid].status = "completed" THEN Rejected(D, "400")
    ELSE LET row == RowOfPlayer(D, mid, pid) IN
         IF row = NULL THEN Rejected(D, "403")
         ELSE IF D.match_players[row].team_id # NULL
              THEN ReportDoubles(D, mid, pid, won, row)
              ELSE ReportSingles(D, mid, pid, won, row)

\* report_match_result
ReportMatchResult(D, mid, pid, won) ==
    ThenAutoAssign(ReportMatchResultCore(D, mid, pid, won), mid)

\* "Create first game": db.add(Game(match_id, set_number=1, leg_number=1));
\* matches[mid].games counts the Game rows of the match
CreateGame(D, mid) == [D EXCEPT !.matches[mid].games = @ + 1]

\* start_match without the test of the status
StartMatch_AnyStatus(D, mid) ==
    IF mid \notin 1..Len(D.matches) THEN Rejected(D, "404")
    ELSE Ok(CreateGame(SetStatus(D, mid, "in_progress"), mid))

\* start_match (POST /matches/{id}/start)
StartMatch(D, mid) ==
    IF mid \notin 1..Len(D.matches) THEN Rejected(D, "404")
    ELSE IF D.matches[mid].status # "pending" THEN Rejected(D, "400")
    ELSE Ok(CreateGame(SetStatus(D, mid, "in_progress"), mid))

\* all_arrived: enough players, and every one of them at the board
AllArrived(D, mid) ==
    /\ Len(RowsOf(D, mid)) >= RequiredPlayers(D, mid)
    /\ \A i \in 1..Len(D.match_players) :
          D.match_players[i].match_id = mid => D.match_players[i].arrived_at_board

\* player_arrive_at_board (POST /matches/{id}/arrive)
PlayerArrive(D, mid, pid) ==
    IF mid \notin 1..Len(D.matches) THEN Rejected(D, "404")
    ELSE IF D.matches[mid].status \notin {"pending", "waiting_for_players"}
    THEN Rejected(D, "400")
    ELSE LET row == RowOfPlayer(D, mid, pid) IN
         IF row = NULL THEN Rejected(D, "403")
         ELSE IF D.match_players[row].arrived_at_board THEN Rejected(D, "400")
         ELSE LET D1 == [D EXCEPT !.match_players[row].arrived_at_board = TRUE]
                  D2 == IF D1.matches[mid].status = "pending"
                           /\ D1.matches[mid].dartboard_id # NULL
                        THEN SetStatus(D1, mid, "waiting_for_players") ELSE D1
              IN  Ok(IF AllArrived(D2, mid)
                     THEN CreateGame(SetStatus(D2, mid, "in_progress"), mid)
                     ELSE D2)

\* the match gives up its board, which stays unavailable
ReleaseBoard_BoardKept(D, mid) ==
    IF mid \notin 1..Len(D.matches) THEN Rejected(D, "404")
    ELSE IF D.matches[mid].dartboard_id = NULL THEN Rejected(D, "400")
    ELSE Ok([D EXCEPT !.matches[mid].dartboard_id = NULL])

\* release_board_from_match (POST /dartboards/matches/{id}/release-board)
ReleaseBoard(D, mid) ==
    IF mid \notin 1..Len(D.matches) THEN Rejected(D, "404")
    ELSE IF D.matches[mid].dartboard_id = NULL THEN Rejected(D, "400")
    ELSE Ok([D EXCEPT !.dartboards[D.matches[mid].dartboard_id] = TRUE,
                      !.matches[mid].dartboard_id = NULL])

(* ------------------------- board assignment ---------------------------- *)
\* no availability test: every board passes
BoardIsFree_Always(D, b) == TRUE

\* the availability test made once the board's row lock is held
BoardIsFree(D, b) == D.dartboards[b]

\* the new board is taken and the previous one stays unavailable
AssignWrite_KeepOld(D, mid, old, b) ==
    [D EXCEPT !.matches[mid].dartboard_id = b, !.dartboards[b] = FALSE]

\* assign_board_to_match: the previous board is released, the new one taken
AssignWrite(D, mid, old, b) ==
    LET D1 == IF old # NULL THEN [D EXCEPT !.dartboards[old] = TRUE] ELSE D
    IN  [D1 EXCEPT !.matches[mid].dartboard_id = b, !.dartboards[b] = FALSE]

\* assign_board_to_match (POST /dartboards/matches/{id}/assign-board/{board}),
\* run with no other request in flight; "conflict" is the refusal "Dartboard
\* is not available"
AssignBoard(D, mid, b) ==
    IF mid \notin 1..Len(D.matches) THEN Rejected(D, "404")
    ELSE IF D.matches[mid].status = "completed" THEN Rejected(D, "400")
    ELSE IF b \notin Boards THEN Rejected(D, "404")
    ELSE IF ~BoardIsFree(D, b) THEN Rejected(D, "conflict")
    ELSE Ok(AssignWrite(D, mid, D.matches[mid].dartboard_id, b))

(* ------------------------------- state --------------------------------- *)
\* the rows a request has loaded: nothing yet
NoStore == [matches |-> <<>>, match_players |-> <<>>]

FreeSession == [pc |-> "idle", match |-> NULL, board |-> NULL, old |-> NULL,
                winner |-> NULL, result |-> "none", op |-> "none", player |-> NULL,
                seen |-> NoStore]

NoRace == [live |-> FALSE, board |-> NULL, members |-> {}]

NoUpdate == [status |-> Keep, winner_id |-> KeepId, winner_team_id |-> KeepId]

\* the status, winner and board of a match as a request found them
NoRow == [status |-> "none", winner_id |-> NULL, winner_team_id |-> NULL,
          dartboard_id |-> NULL]

NoRequest == [op |-> "none", match |-> NULL, player |-> NULL, won |-> FALSE,
              upd |-> NoUpdate, board |-> NULL, result |-> "none", was |-> NoRow]

\* a session with no request in flight
IsFree(s) == sess[s].pc \in {"idle", "done"}

\* the end of a request: the transaction is over and its row locks are dropped
ReleaseLocks(s) == [b \in Boards |-> IF lock[b] = s THEN NULL ELSE lock[b]]

\* auto-assign selects the available boards FOR UPDATE: it waits while one of
\* them is locked by a board assignment in flight
MustWait(D) ==
    /\ ReadyMatches(D) # <<>>
    /\ \E b \in Boards : D.dartboards[b] /\ lock[b] # NULL

Init ==
    /\ matches = <<>>
    /\ match_players = <<>>
    /\ dartboards = [b \in Boards |-> TRUE]
    /\ tournament = [status |-> "registration", format |-> "single_elimination",
                     entrants |-> 0, end_time |-> Unset]
    /\ sess = [s \in Sessions |-> FreeSession]
    /\ lock = [b \in Boards |-> NULL]
    /\ race = NoRace
    /\ last = NoRequest
    /\ nops = 0

Generated == tournament.status # "registration"

MatchIds == 1..Len(matches)

\* requests are issued on a generated bracket, at most `budget` of them
CanIssue(budget) == Generated /\ nops < budget

\* the committed store becomes D
Commit(D) ==
    /\ matches' = D.matches
    /\ match_players' = D.match_players
    /\ dartboards' = D.dartboards
    /\ tournament' = D.tournament

\* a request handled in one step returns r
Return(r, req) ==
    /\ Commit(r.store)
    /\ last' = [req EXCEPT !.result = r.result,
                           !.was = [status |-> matches[req.match].status,
                                    winner_id |-> matches[req.match].winner_id,
                                    winner_team_id |-> matches[req.match].winner_team_id,
                                    dartboard_id |-> matches[req.match].dartboard_id]]
    /\ nops' = nops + 1
    /\ race' = NoRace
    /\ UNCHANGED <<sess, lock>>

(* ------------------------------ requests ------------------------------- *)
Generate(fmt, n) ==
    /\ ~Generated
    /\ Commit(GenerateBracket(Store, fmt, n))
    /\ last' = [NoRequest EXCEPT !.op = "generate", !.result = "ok"]
    /\ UNCHANGED <<sess, lock, race, nops>>

\* a double-elimination bracket is built for the four entrants
GenerateDouble(reset) ==
    /\ ~Generated
    /\ Commit(BuildDoubleElimination(Store, reset))
    /\ last' = [NoRequest EXCEPT !.op = "generate", !.result = "ok"]
    /\ UNCHANGED <<sess, lock, race, nops>>

\* a double-elimination bracket is built for eight entrants
GenerateWide ==
    /\ ~Generated
    /\ Commit(BuildWideDoubleElimination(Store))
    /\ last' = [NoRequest EXCEPT !.op = "generate", !.result = "ok"]
    /\ UNCHANGED <<sess, lock, race, nops>>

\* the statuses that PATCH /tournaments/{id} is sent after generation
LifecycleStatuses == {"draft", "in_progress", "completed", "cancelled"}

SetTournamentStatus(st) ==
    /\ Commit(UpdateTournament(Store, st))
    /\ last' = [NoRequest EXCEPT !.op = "tournament", !.result = "ok"]
    /\ nops' = nops + 1
    /\ race' = NoRace
    /\ UNCHANGED <<sess, lock>>

\* a player who is not in match mid, when there is one
Outsider(mid) ==
    LET others == (1..(2 * MaxEntrants)) \ PlayerIds(Store, mid)
    IN  IF others = {} THEN {} ELSE {CHOOSE p \in others : \A q \in others : p <= q}

\* the bodies of PATCH /matches/{mid} that are tried
OverrideStatuses == {Keep, "pending", "completed", "cancelled"}

OverrideWinners(mid) == {KeepId, NULL} \cup PlayerIds(Store, mid) \cup Outsider(mid)

OverrideTeams(mid) == {KeepId} \cup TeamIds(Store, mid)

Overrides(mid) ==
    [status : OverrideStatuses, winner_id : OverrideWinners(mid),
     winner_team_id : OverrideTeams(mid)]

\* the body the scorers send: the match is completed with one of its occupants
\* (one of its teams in doubles) as winner
Completions(mid) ==
    {u \in [status : {"completed"}, winner_id : {KeepId} \cup PlayerIds(Store, mid),
            winner_team_id : {KeepId} \cup TeamIds(Store, mid)] :
        IF TeamIds(Store, mid) = {}
        THEN u.winner_id # KeepId
        ELSE u.winner_id = KeepId /\ u.winner_team_id # KeepId}

Override(mid, upd) ==
    /\ ~MustWait(UpdateMatchCore(Store, mid, upd).store)
    /\ Return(UpdateMatch(Store, mid, upd),
              [NoRequest EXCEPT !.op = "override", !.match = mid, !.upd = upd])

Report(mid, pid, won) ==
    /\ ~MustWait(ReportMatchResultCore(Store, mid, pid, won).store)
    /\ Return(ReportMatchResult(Store, mid, pid, won),
              [NoRequest EXCEPT !.op = "report", !.match = mid, !.player = pid,
                                !.won = won])

Start(mid) ==
    Return(StartMatch(Store, mid), [NoRequest EXCEPT !.op = "start", !.match = mid])

Arrive(mid, pid) ==
    Return(PlayerArrive(Store, mid, pid),
           [NoRequest EXCEPT !.op = "arrive", !.match = mid, !.player = pid])

Release(mid) ==
    Return(ReleaseBoard(Store, mid), [NoRequest EXCEPT !.op = "release", !.match = mid])

\* an assign-board request handled with no other request in flight
Assign(mid, b) ==
    /\ \A s \in Sessions : IsFree(s)
    /\ Return(AssignBoard(Store, mid, b),
              [NoRequest EXCEPT !.op = "assign", !.match = mid, !.board = b])

(* ----------------- concurrent board assignment requests ---------------- *)
\* the requests of a batch race for one available board from distinct
\* matches that are not completed, with nothing else in flight
IsRace(S, ms, b) ==
    /\ Cardinality(S) >= 2
    /\ \A s \in Sessions : IsFree(s)
    /\ dartboards[b] /\ lock[b] = NULL
    /\ \A s, t \in S : s # t => ms[s] # ms[t]
    /\ \A s \in S : matches[ms[s]].status # "completed"

\* assign-board requests for board b are sent together, one per session of S
FireAssigns(S, ms, b) ==
    /\ \A s \in S : IsFree(s)
    /\ sess' = [s \in Sessions |->
                  IF s \in S
                  THEN [FreeSession EXCEPT !.pc = "fired", !.match = ms[s], !.board = b]
                  ELSE sess[s]]
    /\ race' = IF IsRace(S, ms, b) THEN [live |-> TRUE, board |-> b, members |-> S]
               ELSE NoRace
    /\ nops' = nops + 1
    /\ UNCHANGED <<matches, match_players, dartboards, tournament, lock, last>>


\* two assign-board requests for match mid, one for board b1 and one for
\* board b2, are sent together
FireAssignPair(a, b, mid, b1, b2) ==
    /\ a # b /\ b1 # b2 /\ \A s \in Sessions : IsFree(s)
    /\ sess' = [sess EXCEPT
                  ![a] = [FreeSession EXCEPT !.pc = "fired", !.match = mid, !.board = b1],
                  ![b] = [FreeSession EXCEPT !.pc = "fired", !.match = mid, !.board = b2]]
    /\ race' = [live |-> TRUE, board |-> NULL, members |-> {a, b}]
    /\ nops' = nops + 1
    /\ UNCHANGED <<matches, match_players, dartboards, tournament, lock, last>>

Finish(s, result) == [sess EXCEPT ![s].pc = "done", ![s].result = result]

\* assign_board_to_match: the match is read and a completed match is refused
AssignRead(s) ==
    /\ sess[s].pc = "fired"
    /\ IF matches[sess[s].match].status = "completed"
       THEN sess' = Finish(s, "400")
       ELSE sess' = [sess EXCEPT ![s].pc = "read",
                                 ![s].old = matches[sess[s].match].dartboard_id]
    /\ UNCHANGED <<matches, match_players, dartboards, tournament, lock, race, last, nops>>

\* assign_board_to_match: SELECT the board FOR UPDATE, then test is_available
AssignLock(s) ==
    /\ sess[s].pc = "read"
    /\ lock[sess[s].board] = NULL
    /\ IF BoardIsFree(Store, sess[s].board)
       THEN /\ lock' = [lock EXCEPT ![sess[s].board] = s]
            /\ sess' = [sess EXCEPT ![s].pc = "locked"]
       ELSE /\ lock' = lock
            /\ sess' = Finish(s, "conflict")
    /\ UNCHANGED <<matches, match_players, dartboards, tournament, race, last, nops>>

\* assign_board_to_match: the writes, and the commit that ends the request
AssignCommit(s) ==
    /\ sess[s].pc = "locked"
    /\ sess[s].old # NULL => lock[sess[s].old] \in {NULL, s}
    /\ Commit(AssignWrite(Store, sess[s].match, sess[s].old, sess[s].board))
    /\ lock' = ReleaseLocks(s)
    /\ sess' = Finish(s, "ok")
    /\ UNCHANGED <<race, last, nops>>

\* the k lowest-numbered sessions, when they are all free
Batches == {S \in SUBSET Sessions :
              /\ S # {}
              /\ \A s \in S : IsFree(s)
              /\ \A s \in S : \A t \in Sessions : (t < s /\ IsFree(t)) => t \in S}

(* --------------------- concurrent match completions -------------------- *)
\* the feeder of match d at the odd (k = 1) or even (k = 2) position
Feeder(d, k) ==
    LET bp == MatchRM(matches[d].bracket_position) IN
    IF ~bp.ok THEN NULL
    ELSE FindByPosition(Store, FormatRM(bp.g1 - 1, 2 * bp.g2 - 2 + k))

\* two PATCH requests that complete the two feeders of match d with the
\* winners w1 and w2 are sent together
FireCompletions(a, b, d, w1, w2) ==
    /\ a # b /\ \A s \in Sessions : IsFree(s)
    /\ Feeder(d, 1) # NULL /\ Feeder(d, 2) # NULL
    /\ \A k \in {1, 2} : matches[Feeder(d, k)].status # "completed"
    /\ w1 \in PlayerIds(Store, Feeder(d, 1)) /\ w2 \in PlayerIds(Store, Feeder(d, 2))
    /\ sess' = [sess EXCEPT
                  ![a] = [FreeSession EXCEPT !.pc = "sent", !.match = Feeder(d, 1),
                                             !.winner = w1],
                  ![b] = [FreeSession EXCEPT !.pc = "sent", !.match = Feeder(d, 2),
                                             !.winner = w2]]
    /\ race' = [live |-> TRUE, board |-> NULL, members |-> {a, b}]
    /\ nops' = nops + 1
    /\ UNCHANGED <<matches, match_players, dartboards, tournament, lock, last>>

\* update_match: the match is selected; its dartboard_id is the one the
\* request will release
CompleteRead(s) ==
    /\ sess[s].pc = "sent"
    /\ sess' = [sess EXCEPT ![s].pc = "selected",
                            ![s].old = matches[sess[s].match].dartboard_id]
    /\ UNCHANGED <<matches, match_players, dartboards, tournament, lock, race, last, nops>>

\* update_match: "await db.flush()" writes the match row, which stays locked
\* and invisible to the other transactions until the commit
CompleteFlush(s) ==
    /\ sess[s].pc = "selected"
    /\ sess' = [sess EXCEPT ![s].pc = "flushed"]
    /\ UNCHANGED <<matches, match_players, dartboards, tournament, lock, race, last, nops>>

\* the next match of match mid: the row that its advancement locks
NextMatch(mid) ==
    LET bp == MatchRM(matches[mid].bracket_position) IN
    IF ~bp.ok THEN NULL
    ELSE FindByPosition(Store, FormatRM(matches[mid].round_number + 1, NextIndex(bp.g2)))

\* the destination row d is locked by session t
HoldsDestination(t, d) ==
    sess[t].pc = "advancing" /\ d # NULL /\ NextMatch(sess[t].match) = d

\* _advance_winner_in_bracket: SELECT the next match FOR UPDATE
CompleteLock(s) ==
    /\ sess[s].pc = "flushed"
    /\ \A t \in Sessions \ {s} : ~HoldsDestination(t, NextMatch(sess[s].match))
    /\ sess' = [sess EXCEPT ![s].pc = "advancing"]
    /\ UNCHANGED <<matches, match_players, dartboards, tournament, lock, race, last, nops>>

\* the writes of update_match: the fields of the body, the release of the
\* board the request selected, the advancement and the auto-assignment
CompleteWrites(D, mid, w, old) ==
    LET D1 == [D EXCEPT !.matches[mid].status = "completed",
                        !.matches[mid].winner_id = w]
        D2 == IF old # NULL THEN [D1 EXCEPT !.dartboards[old] = TRUE] ELSE D1
    IN  AutoAssignBoards(AdvanceCompleted(D2, mid))

\* the auto-assignment of session s writes the match row that session t has
\* flushed and holds locked
WaitsForRow(s, t) ==
    LET mid == sess[t].match
        D   == CompleteWrites(Store, sess[s].match, sess[s].winner, sess[s].old)
    IN  /\ t # s /\ sess[s].pc = "advancing" /\ sess[t].pc \in {"flushed", "advancing"}
        /\ D.matches[mid].dartboard_id # matches[mid].dartboard_id

\* the placement, the bye check, the auto-assignment and the commit
CompleteCommit(s) ==
    /\ sess[s].pc = "advancing"
    /\ \A t \in Sessions : ~WaitsForRow(s, t)
    /\ Commit(CompleteWrites(Store, sess[s].match, sess[s].winner, sess[s].old))
    /\ sess' = Finish(s, "ok")
    /\ UNCHANGED <<lock, race, last, nops>>

\* session s waits for the row of session t, which waits for the destination
\* that s holds: the database ends the deadlock by aborting one of the two
DeadlockAbort(s, t) ==
    /\ WaitsForRow(s, t) /\ sess[t].pc = "flushed"
    /\ HoldsDestination(s, NextMatch(sess[t].match))
    /\ \E victim \in {s, t} : sess' = Finish(victim, "500")
    /\ UNCHANGED <<matches, match_players, dartboards, tournament, lock, race, last, nops>>

CompleteStep ==
    \E s \in Sessions :
        \/ CompleteRead(s)
        \/ CompleteFlush(s)
        \/ CompleteLock(s)
        \/ CompleteCommit(s)
        \/ \E t \in Sessions : DeadlockAbort(s, t)


(* ------------------ concurrent starts and arrival marks ---------------- *)
\* a start request and a second request on the same match, a start or the
\* arrival mark of player pid, are sent together
FireStarts(a, b, mid, second, pid) ==
    /\ a # b /\ \A s \in Sessions : IsFree(s)
    /\ second = "arrive" => pid \in PlayerIds(Store, mid)
    /\ second = "start" => pid = NULL
    /\ sess' = [sess EXCEPT
                  ![a] = [FreeSession EXCEPT !.pc = "begun", !.match = mid, !.op = "start"],
                  ![b] = [FreeSession EXCEPT !.pc = "begun", !.match = mid, !.op = second,
                                             !.player = pid]]
    /\ race' = [live |-> TRUE, board |-> NULL, members |-> {a, b}]
    /\ nops' = nops + 1
    /\ UNCHANGED <<matches, match_players, dartboards, tournament, lock, last>>

\* start_match, player_arrive_at_board: the match and its occupant records
\* are selected, without FOR UPDATE
BeginRead(s) ==
    /\ sess[s].pc = "begun"
    /\ sess' = [sess EXCEPT ![s].pc = "loaded",
                            ![s].seen = [matches |-> matches,
                                         match_players |-> match_players]]
    /\ UNCHANGED <<matches, match_players, dartboards, tournament, lock, race, last, nops>>

\* what the handler of session s computes from the rows it has loaded
Computed(s) ==
    LET D == [Store EXCEPT !.matches = sess[s].seen.matches,
                           !.match_players = sess[s].seen.match_players]
    IN  IF sess[s].op = "start" THEN StartMatch(D, sess[s].match)
        ELSE PlayerArrive(D, sess[s].match, sess[s].player)

\* db.flush() and the commit: the attributes the handler changed are written
\* to the rows as they are now, and the Game it created is inserted
WriteBack(D, s) ==
    LET mid  == sess[s].match
        was  == sess[s].seen
        now  == Computed(s).store
        rows == {i \in 1..Len(was.match_players) :
                    now.match_players[i] # was.match_players[i]}
    IN  [D EXCEPT
           !.matches[mid].status =
               IF now.matches[mid].status # was.matches[mid].status
               THEN now.matches[mid].status ELSE @,
           !.matches[mid].games = @ + (now.matches[mid].games - was.matches[mid].games),
           !.match_players =
               [i \in 1..Len(@) |->
                   IF i \in rows
                   THEN [@[i] EXCEPT !.arrived_at_board = now.match_players[i].arrived_at_board]
                   ELSE @[i]]]

\* the request of session s returns: rejected, or its writes are committed
BeginCommit(s) ==
    /\ sess[s].pc = "loaded"
    /\ IF Computed(s).result = "ok"
       THEN Commit(WriteBack(Store, s))
       ELSE UNCHANGED <<matches, match_players, dartboards, tournament>>
    /\ sess' = [Finish(s, Computed(s).result) EXCEPT ![s].seen = NoStore]
    /\ UNCHANGED <<lock, race, last, nops>>

StartStep == \E s \in Sessions : BeginRead(s) \/ BeginCommit(s)

(* --------------------------- specifications ---------------------------- *)
GenerateAny == \E fmt \in Formats, n \in 2..MaxEntrants : Generate(fmt, n)

OverrideAny == \E mid \in MatchIds : \E upd \in Overrides(mid) : Override(mid, upd)

CompleteAny == \E mid \in MatchIds : \E upd \in Completions(mid) : Override(mid, upd)

\* a scorer completes a match that is not completed yet
ScoreAny ==
    \E mid \in MatchIds :
        /\ matches[mid].status # "completed"
        /\ \E upd \in Completions(mid) : Override(mid, upd)

ReportAny ==
    \E mid \in MatchIds :
       \E pid \in PlayerIds(Store, mid) \cup Outsider(mid), won \in BOOLEAN :
          Report(mid, pid, won)

StartAny == \E mid \in MatchIds : Start(mid)

ArriveAny ==
    \E mid \in MatchIds : \E pid \in PlayerIds(Store, mid) \cup Outsider(mid) : Arrive(mid, pid)

ReleaseAny == \E mid \in MatchIds : Release(mid)

AssignAny == \E mid \in MatchIds, b \in Boards : Assign(mid, b)

\* requests for one board fired together from distinct matches
RaceAny ==
    \E S \in Batches, b \in Boards : \E ms \in [S -> MatchIds] :
        IsRace(S, ms, b) /\ FireAssigns(S, ms, b)

\* no board assignment is in flight
Quiet == \A s \in Sessions : IsFree(s)

AssignStep == \E s \in Sessions : AssignRead(s) \/ AssignLock(s) \/ AssignCommit(s)

\* PATCH bodies that re-open a match or set its winner without completing it
Reopenings(mid) ==
    {u \in Overrides(mid) :
        /\ u.status \in {Keep, "pending"}
        /\ u.winner_team_id = KeepId
        /\ u.winner_id \in {KeepId} \cup PlayerIds(Store, mid)
        /\ u # NoUpdate}

ReopenAny == \E mid \in MatchIds : \E upd \in Reopenings(mid) : Override(mid, upd)

GenerateSingles == \E n \in 2..MaxEntrants : Generate("single_elimination", n)

\* a match with two occupants is played and scored once
PlayAny ==
    \E mid \in MatchIds :
        /\ matches[mid].status # "completed"
        /\ Cardinality(PlayerIds(Store, mid)) = 2
        /\ \E w \in PlayerIds(Store, mid) :
              Override(mid, [status |-> "completed", winner_id |-> w,
                             winner_team_id |-> KeepId])

\* a single-elimination tournament played from generation to the final
NextPlay ==
    \/ \E n \in 2..(MaxEntrants + 3) : Generate("single_elimination", n)
    \/ Generated /\ PlayAny

SpecPlay == Init /\ [][NextPlay]_vars

\* board traffic: completions by the scorers, assign and release requests,
\* one at a time or fired together
NextBoards ==
    \/ GenerateSingles
    \/ Quiet /\ CanIssue(MaxOps + 1) /\ ScoreAny
    \/ Quiet /\ CanIssue(MaxOps + 1) /\ ReleaseAny
    \/ CanIssue(MaxOps + 1) /\ AssignAny
    \/ CanIssue(MaxOps + 1) /\ RaceAny
    \/ AssignStep

SpecBoards == Init /\ [][NextBoards]_vars

\* self-reported results and administrative overrides
NextReport ==
    \/ GenerateAny
    \/ CanIssue(MaxOps) /\ ReportAny
    \/ CanIssue(MaxOps) /\ CompleteAny
    \/ CanIssue(MaxOps) /\ ReopenAny

SpecReport == Init /\ [][NextReport]_vars

\* the largest bracket that is built
MaxBuildEntrants == 11

\* bracket generation, followed by a first report
NextBuild ==
    \/ \E fmt \in Formats, n \in 2..MaxBuildEntrants : Generate(fmt, n)
    \/ CanIssue(1) /\ ReportAny

SpecBuild == Init /\ [][NextBuild]_vars

\* the PATCH body that completes a match without naming a winner
VoidBody == [status |-> "completed", winner_id |-> KeepId, winner_team_id |-> KeepId]

\* a match that has no winner is completed without one
VoidAny ==
    \E mid \in MatchIds :
        /\ matches[mid].status # "completed"
        /\ matches[mid].winner_id = NULL /\ matches[mid].winner_team_id = NULL
        /\ Override(mid, VoidBody)

\* brackets of every format, their matches completed by the scorers, with or
\* without a winner, or by the players' reports
NextBracket ==
    \/ GenerateAny
    \/ GenerateDouble(TRUE)
    \/ Generated /\ ScoreAny
    \/ CanIssue(MaxOps - 1) /\ VoidAny
    \/ CanIssue(MaxOps - 1) /\ ReportAny

SpecBracket == Init /\ [][NextBracket]_vars

\* a double-elimination tournament played match by match
NextDouble ==
    \/ GenerateDouble(TRUE)
    \/ Generated /\ PlayAny
    \/ CanIssue(MaxOps) /\ ReportAny

SpecDouble == Init /\ [][NextDouble]_vars

\* a double-elimination bracket whose reset match has not been created
NextLazy ==
    \/ GenerateDouble(FALSE)
    \/ Generated /\ PlayAny

SpecLazy == Init /\ [][NextLazy]_vars

\* a single-elimination tournament is played while its status is patched
NextLife ==
    \/ GenerateSingles
    \/ Generated /\ PlayAny
    \/ CanIssue(MaxOps) /\ \E st \in LifecycleStatuses : SetTournamentStatus(st)

SpecLife == Init /\ [][NextLife]_vars

\* boards are assigned by hand, then both semi-finals are completed at once
NextRace ==
    \/ GenerateSingles
    \/ Quiet /\ CanIssue(MaxOps - 1) /\ AssignAny
    \/ Quiet /\ CanIssue(MaxOps) /\ ScoreAny
    \/ CanIssue(MaxOps + 1) /\
         \E a, b \in Sessions, d \in MatchIds :
            \E w1 \in PlayerIds(Store, Feeder(d, 1)), w2 \in PlayerIds(Store, Feeder(d, 2)) :
                FireCompletions(a, b, d, w1, w2)
    \/ CompleteStep

SpecRace == Init /\ [][NextRace]_vars

\* an administrator resolves a disputed match by naming its winner
ResolveAny ==
    \E mid \in MatchIds :
        /\ matches[mid].status = "disputed"
        /\ \E upd \in Completions(mid) : Override(mid, upd)

\* an occupant of a match that is not completed reports
OccupantReportAny ==
    \E mid \in MatchIds :
        /\ matches[mid].status # "completed"
        /\ \E pid \in PlayerIds(Store, mid), won \in BOOLEAN : Report(mid, pid, won)

\* a board is assigned before play, the sides report, disagree and report
\* again, or the dispute is resolved by an override
NextDispute ==
    \/ GenerateAny
    \/ CanIssue(1) /\ AssignAny
    \/ CanIssue(MaxOps + 2) /\ OccupantReportAny
    \/ CanIssue(MaxOps + 2) /\ ResolveAny

SpecDispute == Init /\ [][NextDispute]_vars

\* brackets of three rounds, their matches completed with or without a
\* winner
NextVoid ==
    \/ \E fmt \in Formats, n \in 2..(MaxEntrants + 3) : Generate(fmt, n)
    \/ CanIssue(MaxOps) /\ VoidAny
    \/ CanIssue(MaxOps) /\ ScoreAny

SpecVoid == Init /\ [][NextVoid]_vars

\* the matches that can be played: not completed, with two occupants
Playable == {i \in MatchIds : matches[i].status # "completed"
                                /\ Cardinality(PlayerIds(Store, i)) = 2}

\* the scorers take the playable matches in the order of the schedule
PlayInOrder ==
    \E mid \in Playable :
        /\ \A j \in Playable : mid <= j
        /\ \E w \in PlayerIds(Store, mid) :
              Override(mid, [status |-> "completed", winner_id |-> w,
                             winner_team_id |-> KeepId])

\* a double-elimination tournament of eight entrants played match by match
NextRoute ==
    \/ GenerateWide
    \/ Generated /\ PlayInOrder

SpecRoute == Init /\ [][NextRoute]_vars


\* an administrator cancels a match
CancelAny ==
    \E mid \in MatchIds :
        Override(mid, [status |-> "cancelled", winner_id |-> KeepId,
                       winner_team_id |-> KeepId])

\* matches are brought into every status and then started
NextStart ==
    \/ GenerateAny
    \/ CanIssue(1) /\ AssignAny
    \/ CanIssue(MaxOps) /\ ArriveAny
    \/ CanIssue(MaxOps) /\ OccupantReportAny
    \/ CanIssue(MaxOps) /\ CancelAny
    \/ CanIssue(MaxOps + 1) /\ StartAny

SpecStart == Init /\ [][NextStart]_vars


\* starts and arrival marks, one at a time or two together on one match
NextGame ==
    \/ GenerateSingles
    \/ Quiet /\ CanIssue(1) /\ AssignAny
    \/ Quiet /\ CanIssue(MaxOps - 1) /\ ArriveAny
    \/ Quiet /\ CanIssue(MaxOps - 1) /\ StartAny
    \/ CanIssue(MaxOps) /\
         \E a, b \in Sessions, mid \in MatchIds :
            /\ a < b
            /\ \/ FireStarts(a, b, mid, "start", NULL)
               \/ \E pid \in PlayerIds(Store, mid) : FireStarts(a, b, mid, "arrive", pid)
    \/ StartStep

SpecGame == Init /\ [][NextGame]_vars


\* a team that is not in match mid
OutsiderTeam(mid) ==
    LET others == (1..MaxEntrants) \ TeamIds(Store, mid)
    IN  IF others = {} THEN {} ELSE {CHOOSE t \in others : \A u \in others : t <= u}

\* PATCH bodies that name a winner, an occupant of the match or not, with or
\* without completing the match
Namings(mid) ==
    {u \in [status : {Keep, "completed"},
            winner_id : {KeepId} \cup PlayerIds(Store, mid) \cup Outsider(mid),
            winner_team_id : {KeepId} \cup TeamIds(Store, mid) \cup OutsiderTeam(mid)] :
        u.winner_id # KeepId \/ u.winner_team_id # KeepId}

NameAny == \E mid \in MatchIds : \E upd \in Namings(mid) : Override(mid, upd)

\* winners are named by overrides and by the reports of the occupants
NextWinner ==
    \/ GenerateAny
    \/ GenerateDouble(TRUE)
    \/ CanIssue(MaxOps - 1) /\ NameAny
    \/ CanIssue(MaxOps - 1) /\ OccupantReportAny

SpecWinner == Init /\ [][NextWinner]_vars


\* one match is assigned to two boards at once, between assignments,
\* releases and completions handled one at a time
NextPair ==
    \/ GenerateSingles
    \/ Quiet /\ CanIssue(MaxOps - 1) /\ AssignAny
    \/ Quiet /\ CanIssue(MaxOps - 1) /\ ScoreAny
    \/ CanIssue(MaxOps) /\
         \E a, b \in Sessions, mid \in MatchIds, b1, b2 \in Boards :
            a < b /\ FireAssignPair(a, b, mid, b1, b2)
    \/ AssignStep

SpecPair == Init /\ [][NextPair]_vars


\* the occupants of the first playable match of the schedule report
ReportInOrder ==
    \E mid \in Playable :
        /\ \A j \in Playable : mid <= j
        /\ \E pid \in PlayerIds(Store, mid), won \in BOOLEAN : Report(mid, pid, won)

\* a single-elimination tournament in which every match that holds two
\* occupants is eventually completed for one of them, by the scorer's
\* override or by the agreeing reports of its occupants
NextProgress ==
    \/ \E n \in 2..(MaxEntrants + 3) : Generate("single_elimination", n)
    \/ Generated /\ PlayAny
    \/ CanIssue(MaxOps - 1) /\ ReportInOrder

\* some match can be played: the enabling condition of PlayAny
CanPlay == Generated /\ Playable # {}

\* weak fairness of playing, WF_vars(Generated /\ PlayAny), written out with
\* the enabling condition of the action
PlayFairness == []<>~CanPlay \/ []<><<Generated /\ PlayAny>>_vars

SpecProgress == Init /\ [][NextProgress]_vars /\ PlayFairness


\* a round-robin schedule is generated
GenerateRoundRobinAny == \E n \in 2..(MaxEntrants - 1) : Generate("round_robin", n)

\* tournaments of every format played to their end: the matches completed
\* by the scorers, with or without a winner, or by the players' reports
NextFinish ==
    \/ GenerateAny
    \/ GenerateDouble(TRUE)
    \/ GenerateRoundRobinAny
    \/ Generated /\ ScoreAny
    \/ CanIssue(MaxOps - 1) /\ VoidAny
    \/ CanIssue(MaxOps - 1) /\ ReportAny

SpecFinish == Init /\ [][NextFinish]_vars

\* every request, handled one at a time
Next ==
    \/ GenerateAny
    \/ CanIssue(MaxOps - 1) /\ OverrideAny
    \/ CanIssue(MaxOps - 1) /\ ReportAny
    \/ CanIssue(MaxOps - 1) /\ StartAny
    \/ CanIssue(MaxOps - 1) /\ ArriveAny
    \/ CanIssue(MaxOps - 1) /\ ReleaseAny
    \/ CanIssue(MaxOps - 1) /\ AssignAny

Spec == Init /\ [][Next]_vars

(* ------------------------------ properties ----------------------------- *)
Terminal == {"completed", "cancelled"}

\* the matches that reference board b through dartboard_id
Holders(b) == {i \in MatchIds : matches[i].dartboard_id = b}

RaceOver == race.live /\ \A s \in race.members : sess[s].pc = "done"

RaceWinners == {s \in race.members : sess[s].result = "ok"}

RaceMatches == {sess[s].match : s \in race.members}

\* C1: when assign requests fired together for one available board from
\* distinct matches that are not completed have all returned, exactly one of
\* them has succeeded, every other one has returned Conflict, the board is
\* unavailable and exactly one of the matches has dartboard_id = the board.
C1_ExactlyOneAssignWins ==
    RaceOver =>
        /\ Cardinality(RaceWinners) = 1
        /\ \A s \in race.members \ RaceWinners : sess[s].result = "conflict"
        /\ ~dartboards[race.board]
        /\ Cardinality(RaceMatches \cap Holders(race.board)) = 1

\* C2: no board is the dartboard_id of two different matches that are both
\* not completed.
C2_NoDoubleBooking ==
    \A b \in Boards :
        Cardinality({i \in Holders(b) : matches[i].status # "completed"}) <= 1

\* C3: a board is unavailable if and only if exactly one non-terminal match
\* references it through dartboard_id.
C3_BoardInvariant ==
    \A b \in Boards :
        ~dartboards[b] <=>
            Cardinality({i \in Holders(b) : matches[i].status \notin Terminal}) = 1

(* ------------------------- result reporting ---------------------------- *)
\* the store after the step
StoreAfter == Store'

\* the step is a request of kind op on match mid that has returned
Handled(op, mid) == last'.op = op /\ last'.match = mid /\ nops' = nops + 1

\* a singles match with its two occupants, a doubles match with its two teams
TwoSided(D, mid) ==
    LET n == Len(RowsOf(D, mid)) IN
    \/ /\ TeamIds(D, mid) = {}
       /\ n = 2 /\ Cardinality(PlayerIds(D, mid)) = 2
    \/ /\ Cardinality(TeamIds(D, mid)) = 2
       /\ n = 4 /\ Cardinality(PlayerIds(D, mid)) = 4
       /\ \A k \in 1..n : PlayersOf(D, mid)[k].team_id # NULL

RowIndices(D, mid) == {i \in 1..Len(D.match_players) : D.match_players[i].match_id = mid}

TeamOf(D, mid, pid) == D.match_players[RowOfPlayer(D, mid, pid)].team_id

\* the rows of the side of occupant pid: the player's row, or the team's rows
SideRows(D, mid, pid) ==
    {i \in RowIndices(D, mid) :
        IF TeamOf(D, mid, pid) # NULL
        THEN D.match_players[i].team_id = TeamOf(D, mid, pid)
        ELSE D.match_players[i].player_id = pid}

ReportsOf(D, rows) == {D.match_players[i].reported_win : i \in rows} \ {Unset}

\* occupant pid reports for a side that has no report, after the other side
SecondReport(D, mid, pid) ==
    /\ D.matches[mid].status # "completed"
    /\ TwoSided(D, mid)
    /\ pid \in PlayerIds(D, mid)
    /\ ReportsOf(D, SideRows(D, mid, pid)) = {}
    /\ Cardinality(ReportsOf(D, RowIndices(D, mid) \ SideRows(D, mid, pid))) = 1

\* exactly one of the two sides claims the win
ExactlyOneClaims(D, mid, pid, won) ==
    ReportsOf(D, RowIndices(D, mid) \ SideRows(D, mid, pid)) =
        {IF won THEN "false" ELSE "true"}

\* the player, or the team, of the side that claims the win
ClaimingPlayer(D, mid, pid, won) ==
    IF won THEN pid ELSE CHOOSE q \in PlayerIds(D, mid) : q # pid

ClaimingTeam(D, mid, pid, won) ==
    IF won THEN TeamOf(D, mid, pid)
    ELSE CHOOSE t \in TeamIds(D, mid) : t # TeamOf(D, mid, pid)

\* the match that the routing table gives as destination of the winner of
\* R{r}M{m}: R{r+1}M{ceil(m/2)}, or NULL when there is none
Destination(D, mid) ==
    LET bp == MatchRM(D.matches[mid].bracket_position) IN
    IF ~bp.ok THEN NULL
    ELSE FindByPosition(D, FormatRM(bp.g1 + 1, (bp.g2 + 1) \div 2))

\* the winner recorded and advanced is the side that claimed the win
WinnerRecorded(D, E, mid, pid, won) ==
    LET dest == Destination(D, mid) IN
    /\ E.matches[mid].status = "completed"
    /\ IF TeamOf(D, mid, pid) # NULL
       THEN /\ E.matches[mid].winner_team_id = ClaimingTeam(D, mid, pid, won)
            /\ dest # NULL => ClaimingTeam(D, mid, pid, won) \in TeamIds(E, dest)
       ELSE /\ E.matches[mid].winner_id = ClaimingPlayer(D, mid, pid, won)
            /\ dest # NULL => ClaimingPlayer(D, mid, pid, won) \in PlayerIds(E, dest)

\* the step is the report that brings two agreeing claims together
AgreeingStep(mid) ==
    /\ Handled("report", mid)
    /\ SecondReport(Store, mid, last'.player)
    /\ ExactlyOneClaims(Store, mid, last'.player, last'.won)

\* the outcome of a's report followed by b's
BothReport(D, mid, a, ca, b, cb) ==
    ReportMatchResult(ReportMatchResult(D, mid, a, ca).store, mid, b, cb).store

\* from a match without reports, a claiming the win and b conceding lead to
\* the same status and winner in either order
OrderIndependent ==
    \A mid \in MatchIds :
        (/\ matches[mid].status # "completed"
         /\ TwoSided(Store, mid)
         /\ ReportsOf(Store, RowIndices(Store, mid)) = {})
        => \A a, b \in PlayerIds(Store, mid) :
              b \notin {match_players[i].player_id : i \in SideRows(Store, mid, a)}
              => LET ab == BothReport(Store, mid, a, TRUE, b, FALSE).matches[mid]
                     ba == BothReport(Store, mid, b, FALSE, a, TRUE).matches[mid]
                 IN  /\ ab.status = "completed" /\ ba.status = "completed"
                     /\ ab.winner_id = ba.winner_id
                     /\ ab.winner_team_id = ba.winner_team_id

\* C4: when the second side of a match that is not completed reports and
\* exactly one of the two sides claims the win, the match becomes completed,
\* its winner is the side that claimed the win (winner_team_id in doubles)
\* and that winner is placed in the destination match; the status and the
\* winner do not depend on which side reported first.
C4_AgreeingReports ==
    /\ []OrderIndependent
    /\ [][\A mid \in MatchIds :
             AgreeingStep(mid) =>
                 WinnerRecorded(Store, StoreAfter, mid, last'.player, last'.won)]_vars

\* a match completed by the second of two agreeing reports, its winner
\* placed in the destination match
C4_Witness ==
    /\ last.op = "report" /\ last.result = "ok" /\ last.was.status # "completed"
    /\ matches[last.match].status = "completed"
    /\ Destination(Store, last.match) # NULL
    /\ matches[last.match].winner_id \in PlayerIds(Store, Destination(Store, last.match))

\* the step is the report that brings two inconsistent claims together
DisputingStep(mid) ==
    /\ Handled("report", mid)
    /\ SecondReport(Store, mid, last'.player)
    /\ ~ExactlyOneClaims(Store, mid, last'.player, last'.won)

\* the occupant records are those of before, up to their reported_win
SameOccupants(D, E) ==
    /\ Len(E.match_players) = Len(D.match_players)
    /\ \A i \in 1..Len(D.match_players) :
          E.match_players[i] =
              [D.match_players[i] EXCEPT !.reported_win = E.match_players[i].reported_win]

\* status and winner of every match but mid are those of before
OthersUntouched(D, E, mid) ==
    \A i \in 1..Len(D.matches) :
        i # mid => /\ E.matches[i].status = D.matches[i].status
                   /\ E.matches[i].winner_id = D.matches[i].winner_id
                   /\ E.matches[i].winner_team_id = D.matches[i].winner_team_id

\* C5: when the second side's report is inconsistent with the first (both
\* claim the win, or both claim the loss), the match becomes disputed, the
\* reported_win of both sides is unset again, the report records no winner
\* and places no competitor in any match.
C5_Dispute ==
    [][\A mid \in MatchIds :
          DisputingStep(mid) =>
              /\ matches'[mid].status = "disputed"
              /\ ReportsOf(StoreAfter, RowIndices(StoreAfter, mid)) = {}
              /\ matches'[mid].winner_id = matches[mid].winner_id
              /\ matches'[mid].winner_team_id = matches[mid].winner_team_id
              /\ SameOccupants(Store, StoreAfter)
              /\ OthersUntouched(Store, StoreAfter, mid)]_vars

\* a match left disputed by the second report, without any report standing
C5_Witness ==
    /\ last.op = "report" /\ last.result = "ok"
    /\ matches[last.match].status = "disputed"
    /\ ReportsOf(Store, RowIndices(Store, last.match)) = {}
    /\ matches[last.match].winner_id = NULL

\* the side of reporter pid already has a report that is not resolved
SideHasReported(D, mid, pid) ==
    /\ pid \in PlayerIds(D, mid)
    /\ ReportsOf(D, SideRows(D, mid, pid)) # {}

\* C6: a report is rejected and leaves the store as it was when the match is
\* already completed, when the reporter is not an occupant of the match, or
\* when the reporter's side (the competitor in singles, the team in doubles)
\* already has an unresolved report.
C6_RejectedReports ==
    [][\A mid \in MatchIds :
          (/\ Handled("report", mid)
           /\ \/ matches[mid].status = "completed"
              \/ last'.player \notin PlayerIds(Store, mid)
              \/ SideHasReported(Store, mid, last'.player))
          => /\ last'.result \in {"400", "403"}
             /\ StoreAfter = Store]_vars

\* a second report from the teammate of a player who has reported is
\* rejected, the match being still open
C6_Witness ==
    /\ last.op = "report" /\ last.result = "400"
    /\ matches[last.match].status # "completed"
    /\ TeamOf(Store, last.match, last.player) # NULL
    /\ match_players[RowOfPlayer(Store, last.match, last.player)].reported_win = Unset
    /\ SideHasReported(Store, last.match, last.player)

(* ------------------------------ placement ------------------------------ *)
\* the rows of match dest are those of before
SameRowsIn(D, E, dest) ==
    /\ Len(E.match_players) = Len(D.match_players)
    /\ \A i \in RowIndices(E, dest) : E.match_players[i] = D.match_players[i]

RowsOfPlayerIn(D, dest, pid) ==
    {i \in RowIndices(D, dest) : D.match_players[i].player_id = pid}

RowsOfTeamIn(D, dest, t) ==
    {i \in RowIndices(D, dest) : D.match_players[i].team_id = t}

\* the step completes match mid, or completes it again, and so advances the
\* winner it records
AdvancingStep(mid) ==
    /\ Handled("override", mid) \/ Handled("report", mid)
    /\ last'.result = "ok"
    /\ matches'[mid].status = "completed"
    /\ Destination(Store, mid) # NULL

\* C7: advancing a winner who already occupies the destination match adds no
\* occupant record and triggers no further action (no other match changes
\* status or winner); after an advancement, first or repeated, the
\* destination holds exactly one record of the winning competitor, two
\* records of the winning team.
C7_IdempotentPlacement ==
    [][\A mid \in MatchIds :
          AdvancingStep(mid) =>
              LET dest == Destination(Store, mid)
                  w    == matches'[mid].winner_id
                  t    == matches'[mid].winner_team_id
              IN  IF t # NULL
                  THEN /\ t \in TeamIds(Store, dest) =>
                            /\ SameRowsIn(Store, StoreAfter, dest)
                            /\ OthersUntouched(Store, StoreAfter, mid)
                       /\ Cardinality(RowsOfTeamIn(StoreAfter, dest, t)) = 2
                  ELSE w # NULL =>
                       /\ w \in PlayerIds(Store, dest) =>
                            /\ SameRowsIn(Store, StoreAfter, dest)
                            /\ OthersUntouched(Store, StoreAfter, mid)
                       /\ Cardinality(RowsOfPlayerIn(StoreAfter, dest, w)) = 1]_vars

\* a completed match is completed again with the same winner, who has one
\* record in the destination match
C7_Witness ==
    /\ last.op = "override" /\ last.result = "ok"
    /\ last.was.status = "completed"
    /\ matches[last.match].status = "completed"
    /\ matches[last.match].winner_id # NULL
    /\ last.was.winner_id = matches[last.match].winner_id
    /\ Destination(Store, last.match) # NULL
    /\ Cardinality(RowsOfPlayerIn(Store, Destination(Store, last.match),
                                  matches[last.match].winner_id)) = 1

(* ------------------------------ occupancy ------------------------------ *)
IsDoubles == tournament.format = "lucky_draw_doubles"

\* C8: every match has at most 2 distinct occupied slots; a singles match
\* has at most 2 occupants, a doubles match at most 4, 2 per team; no
\* competitor and no team appears in a match more than once.
C8_Occupancy ==
    \A mid \in MatchIds :
        LET rows == RowIndices(Store, mid) IN
        /\ Cardinality({match_players[i].position : i \in rows}) <= 2
        /\ Cardinality(rows) <= (IF IsDoubles THEN 4 ELSE 2)
        /\ \A t \in TeamIds(Store, mid) : Cardinality(RowsOfTeamIn(Store, mid, t)) <= 2
        /\ \A p \in PlayerIds(Store, mid) : Cardinality(RowsOfPlayerIn(Store, mid, p)) = 1

\* the occupants of a match: its (player, team) pairs
Occupants(D, mid) ==
    {<<D.match_players[i].player_id, D.match_players[i].team_id>> : i \in RowIndices(D, mid)}

\* C9: once a match is completed, no later request changes its status, its
\* winner_id or winner_team_id, or its set of occupants.
C9_CompletedImmutable ==
    [][\A mid \in MatchIds :
          matches[mid].status = "completed" =>
              /\ matches'[mid].status = "completed"
              /\ matches'[mid].winner_id = matches[mid].winner_id
              /\ matches'[mid].winner_team_id = matches[mid].winner_team_id
              /\ Occupants(StoreAfter, mid) = Occupants(Store, mid)]_vars

(* ------------------------- single elimination -------------------------- *)
\* the matches that were played: completed between two occupants
Contested == {i \in MatchIds : matches[i].status = "completed" /\ Len(RowsOf(Store, i)) = 2}

\* the matches that decided a winner, byes and walkovers included
Decisive == {i \in MatchIds : matches[i].status = "completed" /\ matches[i].winner_id # NULL}

\* the entrants that lost a match they played
Losers == {p \in 1..tournament.entrants :
              \E i \in Contested : p \in PlayerIds(Store, i) /\ p # matches[i].winner_id}

\* the entrants that never lost
Champions == (1..tournament.entrants) \ Losers

Finished == tournament.status = "completed"

FinalWinner == matches[Len(matches)].winner_id

\* C10, as stated: when the tournament is over, its decisive matches, byes
\* included, are N-1 in number, and exactly one competitor is champion.
C10_DecisiveWithByes ==
    Finished =>
        /\ Cardinality(Decisive) = tournament.entrants - 1
        /\ Champions = {FinalWinner}

\* C10, amended: when a single-elimination tournament has been played to its
\* end, exactly N-1 matches were contested between two competitors (the byes
\* of round 1 and the walkovers they cascade into are not among them), every
\* match of the bracket is completed, and exactly one competitor, the winner
\* of the final, has lost no match.
C10_ContestedMatches ==
    Finished =>
        /\ Cardinality(Contested) = tournament.entrants - 1
        /\ \A i \in MatchIds : matches[i].status = "completed"
        /\ Champions = {FinalWinner}

\* a finished tournament whose bracket holds a bye next to its N-1 contested
\* matches
C10_Witness ==
    /\ Finished
    /\ Cardinality(Contested) = tournament.entrants - 1
    /\ Len(matches) > tournament.entrants - 1

(* --------------------------- bracket building -------------------------- *)
CeilDiv(a, b) == (a + b - 1) \div b

RECURSIVE Pow2(_)
Pow2(k) == IF k = 0 THEN 1 ELSE 2 * Pow2(k - 1)

\* the matches of round r
RoundOf(r) == {i \in MatchIds : matches[i].round_number = r}

\* the number of matches of round r when N entrants are halved, rounding up,
\* until one match remains: ceil(N / 2^r) while ceil(N / 2^(r-1)) > 1
ExpectedRoundSize(N, r) ==
    IF CeilDiv(N, Pow2(r - 1)) > 1 THEN CeilDiv(N, Pow2(r)) ELSE 0

\* the sides of a match with the slot they occupy: (competitor, slot), the
\* competitor being the team in doubles
Sides(D, mid) ==
    {<<IF D.tournament.format = "lucky_draw_doubles" THEN D.match_players[i].team_id
       ELSE D.match_players[i].player_id,
       D.match_players[i].position>> : i \in RowIndices(D, mid)}

\* the winner of a match: the team in doubles
WinnerOf(D, mid) ==
    IF D.tournament.format = "lucky_draw_doubles" THEN D.matches[mid].winner_team_id
    ELSE D.matches[mid].winner_id

\* the state that bracket generation leaves
JustGenerated == last.op = "generate"

\* the last match of round 1 and the round-2 match it feeds
LastFirstRound == FindByPosition(Store, FormatRM(1, CeilDiv(tournament.entrants, 2)))

ByeDestination ==
    FindByPosition(Store, FormatRM(2, CeilDiv(CeilDiv(tournament.entrants, 2), 2)))

\* C11: generation for N entrants creates rounds of ceil(N/2), ceil(N/4), ...
\* matches down to one match, at positions R{r}M{1..size}; round 1 is seeded
\* sequentially, entrant 2k-1 in slot 1 and entrant 2k in slot 2 of match k;
\* when N is odd the last round-1 match holds one occupant, is completed
\* with that occupant as winner, and the occupant is already in its round-2
\* match, all of it in the state in which the tournament is first
\* in_progress, before any report.
C11_BracketBuilt ==
    JustGenerated =>
        LET N == tournament.entrants IN
        /\ tournament.status = "in_progress" /\ nops = 0
        /\ \A r \in 1..N :
              /\ Cardinality(RoundOf(r)) = ExpectedRoundSize(N, r)
              /\ {matches[i].bracket_position : i \in RoundOf(r)} =
                    {FormatRM(r, k) : k \in 1..ExpectedRoundSize(N, r)}
        /\ Len(matches) = Cardinality({matches[i].bracket_position : i \in MatchIds})
        /\ \A k \in 1..CeilDiv(N, 2) :
              Sides(Store, FindByPosition(Store, FormatRM(1, k))) =
                  {<<2 * k - 1, 1>>} \cup (IF 2 * k <= N THEN {<<2 * k, 2>>} ELSE {})
        /\ N % 2 = 1 =>
              /\ Sides(Store, LastFirstRound) = {<<N, 1>>}
              /\ matches[LastFirstRound].status = "completed"
              /\ WinnerOf(Store, LastFirstRound) = N
              /\ \E slot \in {1, 2} : <<N, slot>> \in Sides(Store, ByeDestination)

\* eleven entrants: rounds of 6, 3, 2 and 1 matches, the sixth match of round
\* 1 completed as the bye of entrant 11, who is in slot 2 of R2M3
C11_Witness ==
    /\ JustGenerated /\ tournament.entrants = 11
    /\ <<Cardinality(RoundOf(1)), Cardinality(RoundOf(2)),
          Cardinality(RoundOf(3)), Cardinality(RoundOf(4))>> = <<6, 3, 2, 1>>
    /\ matches[LastFirstRound].status = "completed"
    /\ WinnerOf(Store, LastFirstRound) = 11
    /\ <<11, 2>> \in Sides(Store, FindByPosition(Store, FormatRM(2, 3)))

(* ------------------------------ single byes ---------------------------- *)
\* the competitors of a match, slots set aside
Competitors(D, mid) == {s[1] : s \in Sides(D, mid)}

\* the feeders of the match at R{r}M{m}
FeedersOf(D, mid) ==
    LET bp == MatchRM(D.matches[mid].bracket_position)
    IN  IF bp.ok THEN FeedersRM(D, bp.g1, bp.g2) ELSE {}

\* this step is a request that completes match mid
Completes(mid) ==
    /\ Len(matches) = Len(matches') /\ mid \in MatchIds
    /\ matches[mid].status # "completed" /\ matches'[mid].status = "completed"
    /\ last'.match = mid /\ last'.result = "ok"

\* C12: when a request completes the last feeder of a pending match of round
\* 2 or later (with or without a winner) and that match then holds exactly
\* one occupant, the request leaves the match completed with that occupant
\* as its winner.
C12_SingleByeCompleted ==
    [][\A mid \in MatchIds :
         Completes(mid) /\ Destination(Store, mid) # NULL =>
           LET d == Destination(Store, mid) IN
           (/\ matches[d].status = "pending"
            /\ AllCompleted(Store', FeedersOf(Store', d))
            /\ Cardinality(Competitors(Store', d)) = 1)
           => /\ matches'[d].status = "completed"
              /\ {WinnerOf(Store', d)} = Competitors(Store', d)]_vars

(* --------------------------- double elimination ------------------------ *)
At(D, bp) == FindByPosition(D, bp)

\* the occupant of match mid who is not its winner
LoserOf(D, mid) == CHOOSE p \in PlayerIds(D, mid) : p # D.matches[mid].winner_id

\* the winner of match mid is in slot wslot of the match at wbp
WinnerRouted(D, mid, wbp, wslot) ==
    At(D, wbp) # NULL /\ <<D.matches[mid].winner_id, wslot>> \in Sides(D, At(D, wbp))

\* the loser of match mid is in slot lslot of the match at lbp
LoserRouted(D, mid, lbp, lslot) ==
    At(D, lbp) # NULL /\ <<LoserOf(D, mid), lslot>> \in Sides(D, At(D, lbp))

\* the routing of the four-entrant bracket after the completion of mid
RoutedFour(D, mid) ==
    LET bp == D.matches[mid].bracket_position IN
    /\ bp = FormatWR(1, 1) =>
          WinnerRouted(D, mid, FormatWR(2, 1), 1) /\ LoserRouted(D, mid, FormatLR(1, 1), 1)
    /\ bp = FormatWR(1, 2) =>
          WinnerRouted(D, mid, FormatWR(2, 1), 2) /\ LoserRouted(D, mid, FormatLR(1, 1), 2)
    /\ bp = FormatLR(1, 1) => WinnerRouted(D, mid, GF1, 2)
    /\ bp = FormatWR(2, 1) => WinnerRouted(D, mid, GF1, 1)

\* a request completes match mid, which two occupants contest, with a winner
Decides(mid) ==
    /\ Completes(mid) /\ TwoSided(Store, mid)
    /\ matches'[mid].winner_id \in PlayerIds(Store, mid)

\* no match holds more than two occupants
AtMostTwo(D) == \A i \in 1..Len(D.matches) : Len(RowsOf(D, i)) <= 2

\* no completed match receives an occupant
ClosedToArrivals ==
    \A i \in MatchIds :
        matches[i].status = "completed" /\ Len(matches') = Len(matches) =>
            PlayerIds(Store', i) \subseteq PlayerIds(Store, i)

WinningSlot(mid) ==
    CHOOSE k \in {1, 2} : <<matches'[mid].winner_id, k>> \in Sides(Store, mid)

\* the tournament becomes completed in this step
TournamentCompletes == tournament.status # "completed" /\ tournament'.status = "completed"

IsTerminal(D, mid) ==
    LET bp == D.matches[mid].bracket_position IN
    \/ MatchRM(bp).ok /\ Destination(D, mid) = NULL
    \/ bp = GF2
    \/ bp = GF1 /\ <<D.matches[mid].winner_id, 1>> \in Sides(D, mid)

\* the step leaves match mid completed with a recorded winner, which it was
\* not before
BecomesWon(mid) ==
    /\ Len(matches) = Len(matches') /\ mid \in MatchIds
    /\ matches[mid].status # "completed"
    /\ matches'[mid].status = "completed" /\ WinnerOf(Store', mid) # NULL

\* C15: when the terminal match is completed with a recorded winner while
\* the tournament is in_progress, the tournament is completed in the same
\* request, whether the completion comes from a report, a bye or an
\* override.
C15_TerminalCompletes ==
    [][\A mid \in MatchIds :
          /\ BecomesWon(mid) /\ IsTerminal(Store', mid)
          /\ tournament.status = "in_progress"
          => tournament'.status = "completed" /\ tournament'.end_time # Unset]_vars

\* a final that was completed as a bye, after one of its feeders ended
\* without a winner, and the tournament it completed
C15_Witness ==
    \E mid \in MatchIds :
        /\ IsTerminal(Store, mid) /\ MatchRM(matches[mid].bracket_position).ok
        /\ matches[mid].round_number >= 2
        /\ matches[mid].status = "completed" /\ WinnerOf(Store, mid) # NULL
        /\ Cardinality(Competitors(Store, mid)) = 1
        /\ \E f \in FeedersOf(Store, mid) : WinnerOf(Store, f) = NULL
        /\ last.match \in FeedersOf(Store, mid) /\ last.result = "ok"
        /\ tournament.status = "completed"

\* the tournament row that completion leaves, given the row it finds
CompletedFrom(t) ==
    IF t.status = "in_progress"
    THEN [t EXCEPT !.status = "completed", !.end_time = "utcnow"]
    ELSE t

\* C16: completing the tournament sets its status to completed and records
\* the end time only when the tournament is in_progress; in every other
\* status it changes nothing, so completing twice is the same as completing
\* once.
C16_CompleteOnlyInProgress ==
    /\ [](LET D == AutoCompleteTournament(Store) IN
           /\ D = [Store EXCEPT !.tournament = CompletedFrom(tournament)]
           /\ tournament.status = "in_progress" =>
                 D.tournament.status = "completed" /\ D.tournament.end_time # Unset
           /\ tournament.status # "in_progress" => D = Store
           /\ AutoCompleteTournament(D) = D)
    /\ [][\A mid \in MatchIds :
            BecomesWon(mid) /\ IsTerminal(Store', mid) =>
                tournament' = CompletedFrom(tournament)]_vars

\* the final was won after the tournament had been cancelled or put back to
\* draft: the tournament kept its status and has no end time
C16_Witness ==
    \E mid \in MatchIds :
        /\ IsTerminal(Store, mid) /\ last.match = mid /\ last.result = "ok"
        /\ matches[mid].status = "completed" /\ WinnerOf(Store, mid) # NULL
        /\ tournament.status \in {"cancelled", "draft"}
        /\ tournament.end_time = Unset

(* ------------------------------ board rotation ------------------------- *)
\* the matches that the step gives a board
NewlyAssigned ==
    {i \in MatchIds : Len(matches') = Len(matches) /\ matches[i].dartboard_id = NULL
                        /\ matches'[i].dartboard_id # NULL}

\* the matches that are ready for a board after the step
StillReady == {i \in MatchIds : IsReady(Store', i)}

\* the boards of the step are handed out in ascending order: the earlier
\* match gets the lower board, no lower board is left over and no earlier
\* ready match is passed over
HandedOutAscending ==
    /\ \A i, j \in NewlyAssigned :
          Before(Store', i, j) => matches'[i].dartboard_id < matches'[j].dartboard_id
    /\ \A i \in NewlyAssigned :
          /\ matches'[i].status = "pending" /\ ~dartboards'[matches'[i].dartboard_id]
          /\ \A b \in Boards : dartboards'[b] => matches'[i].dartboard_id < b
          /\ \A j \in StillReady : Before(Store', i, j)
    /\ StillReady # {} => \A b \in Boards : ~dartboards'[b]

OverrideCompletedHolder ==
    /\ last.op = "override" /\ last.result = "ok" /\ last.match \in MatchIds
    /\ last.was.status # "completed"
    /\ matches[last.match].status = "completed"
    /\ matches[last.match].dartboard_id # NULL

\* C18: after an administrative override has completed a match that holds
\* board B, B is listed as available and assign(next_match, B) succeeds for
\* every other match of the tournament that is not completed, also when
\* other round-1 matches are pending with two occupants and no board.
C18_ReleasedBoardAssignable ==
    OverrideCompletedHolder =>
        LET b == matches[last.match].dartboard_id IN
        /\ dartboards[b]
        /\ \A n \in MatchIds \ {last.match} :
              matches[n].status # "completed" => AssignBoard(Store, n, b).result = "ok"

(* -------------------------- racing completions ------------------------- *)
\* both requests of a race of completions have ended
CompletionsOver ==
    /\ race.live /\ race.board = NULL
    /\ \A s \in race.members : sess[s].pc = "done"

BothCommitted == CompletionsOver /\ \A s \in race.members : sess[s].result = "ok"

\* the destination of the race
RaceDestination == NextMatch(sess[CHOOSE s \in race.members : TRUE].match)

\* C19: when the two feeders of one destination are completed by two
\* concurrent requests and both commit, under every interleaving the
\* destination holds exactly the two winners, the winner of the odd feeder
\* in slot 1 and the winner of the even feeder in slot 2, no placement is
\* duplicated or lost, and the destination is not auto-completed as a bye.
C19_RacingFeeders ==
    BothCommitted =>
        LET d == RaceDestination IN
        /\ Len(RowsOf(Store, d)) = 2
        /\ Sides(Store, d) =
              {<<sess[s].winner, IF sess[s].match = Feeder(d, 1) THEN 1 ELSE 2>> :
                  s \in race.members}
        /\ Cardinality(Sides(Store, d)) = 2
        /\ matches[d].status # "completed" /\ matches[d].winner_id = NULL
        /\ \A s \in race.members :
              /\ matches[sess[s].match].status = "completed"
              /\ matches[sess[s].match].winner_id = sess[s].winner

\* both requests committed and the destination holds the two winners
C19_Witness ==
    /\ BothCommitted
    /\ PlayerIds(Store, RaceDestination) = {sess[s].winner : s \in race.members}
    /\ Cardinality(PlayerIds(Store, RaceDestination)) = 2

(* ------------------------- failed advancement -------------------------- *)
\* the completion of GF1 that the step requests has to place both
\* competitors in GF2, and GF2 does not exist
DestinationMissing(mid) ==
    /\ Handled("override", mid)
    /\ matches[mid].bracket_position = GF1 /\ TwoSided(Store, mid)
    /\ last'.upd.status = "completed"
    /\ <<last'.upd.winner_id, 2>> \in Sides(Store, mid)
    /\ At(Store, GF2) = NULL

AwaitsBoard(D, mid) ==
    /\ D.matches[mid].status = "pending" /\ D.matches[mid].dartboard_id = NULL
    /\ TwoSided(D, mid)

\* the step is a request in which some match became completed
SomeMatchCompleted ==
    \E mid \in 1..Len(matches') :
        /\ matches'[mid].status = "completed"
        /\ mid \in MatchIds => matches[mid].status # "completed"

\* C21: at the end of a request in which a match of the tournament became
\* completed (by report, by bye, also a bye resolved during bracket
\* generation, or by override), no pending, board-less, fully occupied match
\* coexists with an available board.
C21_AutoAssignOnCompletion ==
    [][SomeMatchCompleted =>
          ~\E mid \in 1..Len(matches'), b \in Boards :
              AwaitsBoard(Store', mid) /\ dartboards'[b]]_vars

(* ------------------------------ auto-assign ---------------------------- *)
\* the occupancy a match needs: 2 occupants in singles, 4 occupants of 2
\* teams in doubles
FullOccupancy(D, mid) ==
    LET rows == RowIndices(D, mid) IN
    IF \E i \in rows : D.match_players[i].team_id # NULL
    THEN Cardinality(rows) >= 4 /\ Cardinality(TeamIds(D, mid)) >= 2
    ELSE Cardinality(rows) >= 2

\* the matches that auto_assign may give a board
WantsBoard(D) ==
    {i \in 1..Len(D.matches) :
        /\ D.matches[i].status = "pending" /\ D.matches[i].dartboard_id = NULL
        /\ FullOccupancy(D, i)}

FreeBoards(D) == {b \in Boards : D.dartboards[b]}

\* the place of a ready match by (round_number, match_number), of an
\* available board by number
MatchRank(D, mid) == 1 + Cardinality({j \in WantsBoard(D) : Before(D, j, mid)})

BoardRank(D, b) == 1 + Cardinality({c \in FreeBoards(D) : c < b})

\* the store that auto_assign must leave: the i-th ready match holds the
\* i-th available board, which is unavailable, and nothing else has changed
Paired(D) ==
    [D EXCEPT
       !.matches = [i \in 1..Len(D.matches) |->
          IF i \in WantsBoard(D) /\ MatchRank(D, i) <= Cardinality(FreeBoards(D))
          THEN [D.matches[i] EXCEPT !.dartboard_id =
                   CHOOSE b \in FreeBoards(D) : BoardRank(D, b) = MatchRank(D, i)]
          ELSE D.matches[i]],
       !.dartboards = [b \in Boards |->
          IF b \in FreeBoards(D) /\ BoardRank(D, b) <= Cardinality(WantsBoard(D))
          THEN FALSE
          ELSE D.dartboards[b]]]

AssignReturned(mid, b, res) ==
    \/ /\ Handled("assign", mid) /\ sess' = sess
       /\ last'.board = b /\ last'.result = res
    \/ \E s \in Sessions :
          /\ sess[s].pc # "done" /\ sess'[s].pc = "done"
          /\ sess[s].match = mid /\ sess[s].board = b /\ sess'[s].result = res

Refusals == {"400", "conflict"}

\* C23: assign(match, board) is refused, and no match or board changes,
\* when the match is completed or the board is not available; a board that
\* one match holds is refused to every other match until it is released.
C23_AssignRefused ==
    /\ [](\A mid \in MatchIds, b \in Boards :
             matches[mid].status = "completed" \/ ~dartboards[b] =>
                /\ AssignBoard(Store, mid, b).result \in Refusals
                /\ AssignBoard(Store, mid, b).store = Store)
    /\ [][\A mid \in MatchIds, b \in Boards :
             /\ \A res \in Refusals : AssignReturned(mid, b, res) => Store' = Store
             /\ \A res \in {"ok", "400", "conflict", "404"} :
                   /\ AssignReturned(mid, b, res)
                   /\ (matches[mid].status = "completed" \/ ~dartboards[b])
                   => res \in Refusals /\ Store' = Store]_vars

\* board b was refused to a match while another match that is not completed
\* holds it
C23_Witness ==
    /\ last.op = "assign" /\ last.result = "conflict" /\ last.match \in MatchIds
    /\ matches[last.match].status # "completed"
    /\ ~dartboards[last.board]
    /\ matches[last.match].dartboard_id # last.board
    /\ \E n \in MatchIds \ {last.match} :
          matches[n].status # "completed" /\ matches[n].dartboard_id = last.board

(* ------------------------------ re-assignment -------------------------- *)
\* store E is store D with match mid moved from board b1 to board b2 and
\* nothing else changed
Moved(D, E, mid, b1, b2) ==
    /\ E.matches = [D.matches EXCEPT ![mid].dartboard_id = b2]
    /\ E.dartboards = [D.dartboards EXCEPT ![b1] = TRUE, ![b2] = FALSE]
    /\ E.match_players = D.match_players /\ E.tournament = D.tournament

\* C24: a successful assign(match, B2) on a match that held a different board
\* B1 leaves B1 available, B2 unavailable and the match on B2, and changes no
\* other match or board.
C24_ReassignReleases ==
    [][\A mid \in MatchIds, b2 \in Boards :
          LET b1 == matches[mid].dartboard_id IN
          AssignReturned(mid, b2, "ok") /\ b1 # NULL /\ b1 # b2 =>
             /\ dartboards'[b1] /\ ~dartboards'[b2]
             /\ matches'[mid].dartboard_id = b2
             /\ Moved(Store, Store', mid, b1, b2)]_vars

\* a match that held board 1, which another request had made unavailable,
\* was given board 2: board 1 is available again
C24_Witness ==
    /\ last.op = "assign" /\ last.result = "ok" /\ last.match \in MatchIds
    /\ last.was.dartboard_id \in Boards /\ last.was.dartboard_id # last.board
    /\ matches[last.match].dartboard_id = last.board
    /\ dartboards[last.was.dartboard_id] /\ ~dartboards[last.board]

(* --------------------------------- release ----------------------------- *)
\* the step is a release-board request on match mid that has returned
ReleaseReturned(mid) == Handled("release", mid) /\ sess' = sess

\* store E is store D with match mid taken off its board b and nothing else
\* changed
Released(D, E, mid, b) ==
    /\ E.matches = [D.matches EXCEPT ![mid].dartboard_id = NULL]
    /\ E.dartboards = [D.dartboards EXCEPT ![b] = TRUE]
    /\ E.match_players = D.match_players /\ E.tournament = D.tournament

\* C25: release(match) clears the match's dartboard_id and sets that board
\* available, leaving every other match and board unchanged; on a match
\* without a board it changes nothing.
C25_Release ==
    /\ [](\A mid \in MatchIds :
             LET b == matches[mid].dartboard_id
                 E == ReleaseBoard(Store, mid).store
             IN  IF b = NULL THEN E = Store ELSE Released(Store, E, mid, b))
    /\ [][\A mid \in MatchIds :
             ReleaseReturned(mid) =>
                LET b == matches[mid].dartboard_id IN
                IF b = NULL THEN Store' = Store
                ELSE /\ last'.result = "ok"
                     /\ matches'[mid].dartboard_id = NULL /\ dartboards'[b]
                     /\ Released(Store, Store', mid, b)]_vars

\* a match was released from its board, which is available again, while
\* another match keeps the other board
C25_Witness ==
    /\ last.op = "release" /\ last.result = "ok" /\ last.match \in MatchIds
    /\ last.was.dartboard_id \in Boards
    /\ matches[last.match].dartboard_id = NULL
    /\ dartboards[last.was.dartboard_id]
    /\ \E n \in MatchIds \ {last.match} :
          /\ matches[n].dartboard_id \in Boards \ {last.was.dartboard_id}
          /\ ~dartboards[matches[n].dartboard_id]

(* --------------------------- resolved disputes ------------------------- *)
\* the store in which match mid is being played instead of disputed
Undisputed(D, mid) == [D EXCEPT !.matches[mid].status = "in_progress"]

\* the board that match mid held is available, or has gone to a match that
\* had none
BoardGivenUp(mid) ==
    LET b == matches[mid].dartboard_id IN
    b # NULL => \/ dartboards'[b]
                \/ \E n \in NewlyAssigned : n # mid /\ matches'[n].dartboard_id = b

\* the step is an override that completes match mid with one of its sides
\* as winner
OverridingStep(mid) ==
    /\ Handled("override", mid) /\ last'.upd \in Completions(mid)

\* winner w (the team in doubles) is recorded for match mid and placed in
\* the destination match
OverrideRecorded(D, E, mid, upd) ==
    LET dest == Destination(D, mid) IN
    /\ E.matches[mid].status = "completed"
    /\ IF upd.winner_team_id # KeepId
       THEN /\ E.matches[mid].winner_team_id = upd.winner_team_id
            /\ dest # NULL => upd.winner_team_id \in TeamIds(E, dest)
       ELSE /\ E.matches[mid].winner_id = upd.winner_id
            /\ dest # NULL => upd.winner_id \in PlayerIds(E, dest)

\* C26: a disputed match is not terminal: a consistent pair of re-reports
\* from the two sides, or an override that names the winner, completes it
\* with that winner, releases its board and advances the winner exactly as
\* the same request does for a match that was never disputed.
C26_DisputeResolved ==
    [][\A mid \in MatchIds :
          matches[mid].status = "disputed" =>
            /\ AgreeingStep(mid) =>
                 /\ last'.result = "ok"
                 /\ WinnerRecorded(Store, StoreAfter, mid, last'.player, last'.won)
                 /\ BoardGivenUp(mid)
                 /\ StoreAfter = ReportMatchResult(Undisputed(Store, mid), mid,
                                                   last'.player, last'.won).store
            /\ OverridingStep(mid) =>
                 /\ last'.result = "ok"
                 /\ OverrideRecorded(Store, StoreAfter, mid, last'.upd)
                 /\ BoardGivenUp(mid)
                 /\ StoreAfter = UpdateMatch(Undisputed(Store, mid), mid, last'.upd).store]_vars

\* a disputed match that held a board was completed by the second of two
\* agreeing re-reports: its winner is in the destination match and the board
\* is no longer its own
C26_Witness ==
    /\ last.op = "report" /\ last.result = "ok" /\ last.match \in MatchIds
    /\ last.was.status = "disputed" /\ last.was.dartboard_id \in Boards
    /\ matches[last.match].status = "completed"
    /\ WinnerOf(Store, last.match) # NULL
    /\ Destination(Store, last.match) # NULL
    /\ WinnerOf(Store, last.match) \in Competitors(Store, Destination(Store, last.match))
    /\ \/ dartboards[last.was.dartboard_id]
       \/ \E n \in MatchIds \ {last.match} :
             matches[n].status = "pending" /\ matches[n].dartboard_id = last.was.dartboard_id

(* ------------------------------ double byes ---------------------------- *)
\* the step is a request that completes the last open feeder of match mid,
\* a match of round 2 or later that is not the final, and leaves it without
\* occupants
LastFeederLeavesEmpty(mid) ==
    /\ MatchRM(matches[mid].bracket_position).ok
    /\ matches[mid].round_number > 1
    /\ Destination(Store, mid) # NULL
    /\ matches[mid].status = "pending"
    /\ \E f \in FeedersOf(Store, mid) : Completes(f)
    /\ \A f \in FeedersOf(Store, mid) : matches'[f].status = "completed"
    /\ Competitors(StoreAfter, mid) = {}

\* C27: when the last feeder of a non-final match of round 2 or later is
\* completed and the match has no occupant, the request leaves the match
\* completed without a winner, and the match it feeds is re-evaluated by the
\* same rule: if all its feeders are then completed it is not left pending
\* with fewer than two occupants.
C27_DoubleBye ==
    [][\A mid \in MatchIds :
          LastFeederLeavesEmpty(mid) =>
             /\ matches'[mid].status = "completed"
             /\ WinnerOf(StoreAfter, mid) = NULL
             /\ LET next == Destination(Store, mid) IN
                (\A f \in FeedersOf(Store, next) : matches'[f].status = "completed")
                  => ~(/\ matches'[next].status = "pending"
                       /\ Cardinality(Competitors(StoreAfter, next)) < 2)]_vars

(* ----------------------- single-elimination routing -------------------- *)
\* the occupant records that the step has added
AddedRows ==
    {match_players'[i] : i \in (Len(match_players) + 1)..Len(match_players')}

\* the competitor of an occupant record: the team in doubles
CompetitorOf(D, row) ==
    IF D.tournament.format = "lucky_draw_doubles" THEN row.team_id ELSE row.player_id

\* the match and the slot that the routing table gives the winner of the
\* match at R{r}M{m}
RoutedMatch(D, mid) ==
    LET bp == MatchRM(D.matches[mid].bracket_position)
    IN  FindByPosition(D, FormatRM(bp.g1 + 1, CeilDiv(bp.g2, 2)))

RoutedSlot(D, mid) ==
    IF MatchRM(D.matches[mid].bracket_position).g2 % 2 = 1 THEN 1 ELSE 2

\* the step is a request that completes the match at R{r}M{m} with a winner
WonRM(mid) == BecomesWon(mid) /\ last'.match = mid /\ MatchRM(matches[mid].bracket_position).ok

\* C28: in single elimination and doubles the winner (competitor or team) of
\* the match at R{r}M{m} is placed in R{r+1}M{ceil(m/2)}, in slot 1 if m is
\* odd and slot 2 if m is even; the loser is placed in no match: every
\* occupant record the request adds is the routed winner of a completed
\* match.
C28_SingleElimRouting ==
    [][\A mid \in MatchIds :
          WonRM(mid) =>
             LET w    == WinnerOf(StoreAfter, mid)
                 dest == RoutedMatch(Store, mid)
             IN  /\ dest # NULL => <<w, RoutedSlot(Store, mid)>> \in Sides(StoreAfter, dest)
                 /\ \A row \in AddedRows :
                       /\ CompetitorOf(StoreAfter, row) = w
                       /\ \E f \in MatchIds :
                             /\ matches'[f].status = "completed"
                             /\ WinnerOf(StoreAfter, f) = w
                             /\ row.match_id = RoutedMatch(Store, f)
                             /\ row.position = RoutedSlot(Store, f)
                 /\ \A i \in 1..Len(match_players) :
                       match_players'[i] =
                          [match_players[i] EXCEPT
                              !.reported_win = match_players'[i].reported_win]]_vars

\* the winner of a round-2 match with an even index sits in slot 2 of the
\* round-3 match, where the loser is not
C28_Witness ==
    /\ last.op = "override" /\ last.result = "ok" /\ last.match \in MatchIds
    /\ LET mid == last.match
           bp  == MatchRM(matches[mid].bracket_position)
       IN  /\ bp.ok /\ bp.g1 = 2 /\ bp.g2 = 2
           /\ matches[mid].status = "completed" /\ WinnerOf(Store, mid) # NULL
           /\ Cardinality(Competitors(Store, mid)) = 2
           /\ RoutedMatch(Store, mid) # NULL
           /\ <<WinnerOf(Store, mid), 2>> \in Sides(Store, RoutedMatch(Store, mid))
           /\ \A c \in Competitors(Store, mid) \ {WinnerOf(Store, mid)} :
                 \A n \in MatchIds \ {mid} :
                    matches[n].round_number > 2 => c \notin Competitors(Store, n)


\* the losers-bracket match of the highest round: the losers-bracket final
LosersFinal(D) ==
    LET lr == {i \in 1..Len(D.matches) : MatchLR(D.matches[i].bracket_position).ok} IN
    IF lr = {} THEN NULL
    ELSE CHOOSE i \in lr :
            \A j \in lr : MatchLR(D.matches[j].bracket_position).g1
                             <= MatchLR(D.matches[i].bracket_position).g1

\* a request completes the winners-bracket match mid between two occupants
DecidesWB(mid) == Decides(mid) /\ MatchWR(matches[mid].bracket_position).ok

\* the routing of the winner and of the loser of the winners-bracket match mid
RoutedWB(D, mid) ==
    LET wb     == MatchWR(D.matches[mid].bracket_position)
        nextbp == FormatWR(wb.g1 + 1, CeilDiv(wb.g2, 2))
        onward == At(D, nextbp) # NULL
        lf     == LosersFinal(D)
    IN  /\ IF onward
           THEN D.matches[mid].winner_id \in PlayerIds(D, At(D, nextbp))
           ELSE WinnerRouted(D, mid, GF1, 1)
        /\ IF wb.g1 = 1
           THEN LET lbp == FormatLR(1, CeilDiv(wb.g2, 2)) IN
                At(D, lbp) # NULL /\ LoserOf(D, mid) \in PlayerIds(D, At(D, lbp))
           ELSE IF onward
           THEN LoserRouted(D, mid, FormatLR(2 * (wb.g1 - 1), wb.g2), 2)
           ELSE lf # NULL /\ <<LoserOf(D, mid), 2>> \in Sides(D, lf)

DecidesLB(mid) == Decides(mid) /\ MatchLR(matches[mid].bracket_position).ok

\* the position and the slot that the routing table gives the winner of the
\* losers-bracket match mid
RoutedLBPosition(D, mid) ==
    LET lb == MatchLR(D.matches[mid].bracket_position) IN
    IF mid = LosersFinal(D) THEN GF1
    ELSE IF lb.g1 % 2 = 1 THEN FormatLR(lb.g1 + 1, lb.g2)
    ELSE FormatLR(lb.g1 + 1, CeilDiv(lb.g2, 2))

RoutedLBSlot(D, mid) ==
    LET lb == MatchLR(D.matches[mid].bracket_position) IN
    IF mid = LosersFinal(D) THEN 2
    ELSE IF lb.g1 % 2 = 1 THEN 1
    ELSE IF lb.g2 % 2 = 1 THEN 1 ELSE 2

RouteTargets(D, p) ==
    LET bp   == D.matches[p].bracket_position
        rm   == MatchRM(bp)
        wb   == MatchWR(bp)
        lb   == MatchLR(bp)
        next == FormatWR(wb.g1 + 1, CeilDiv(wb.g2, 2))
        lf   == LosersFinal(D)
    IN  IF rm.ok THEN {FormatRM(rm.g1 + 1, CeilDiv(rm.g2, 2))}
        ELSE IF wb.ok
        THEN (IF At(D, next) # NULL THEN {next} ELSE {GF1})
             \cup (IF wb.g1 = 1 THEN {FormatLR(1, CeilDiv(wb.g2, 2))}
                   ELSE IF At(D, next) # NULL THEN {FormatLR(2 * (wb.g1 - 1), wb.g2)}
                   ELSE IF lf # NULL THEN {D.matches[lf].bracket_position}
                   ELSE {})
        ELSE IF lb.ok THEN {RoutedLBPosition(D, p)}
        ELSE IF bp = GF1 THEN {GF2}
        ELSE {}

\* the feeder matches of match d: the matches that the routing table sends
\* into d
RouteFeeders(D, d) ==
    {p \in 1..Len(D.matches) : D.matches[d].bracket_position \in RouteTargets(D, p)}

\* a match of round 1 of a bracket, or of round 1 of the winners bracket
IsFirstRound(D, i) ==
    LET bp == D.matches[i].bracket_position IN
    (MatchRM(bp).ok /\ MatchRM(bp).g1 <= 1) \/ (MatchWR(bp).ok /\ MatchWR(bp).g1 = 1)

\* a request on another match leaves match i completed: a bye of the cascade
AutoCompleted(i) ==
    /\ Len(matches) = Len(matches') /\ i \in MatchIds
    /\ matches[i].status # "completed" /\ matches'[i].status = "completed"
    /\ last'.match # i

\* the conditions under which the cascade may complete match i
ByeConditions(D, i) ==
    /\ ~IsFirstRound(D, i)
    /\ D.matches[i].bracket_position \notin {GF1, GF2}
    /\ \A p \in RouteFeeders(D, i) : D.matches[p].status = "completed"
    /\ Cardinality(Competitors(D, i)) < 2

\* C31: the bye cascade never completes a match of round 1 or of WR1, never
\* completes GF1 or GF2, never completes a match one of whose existing feeder
\* matches is not completed, and never completes a match that holds two
\* occupied sides or is not pending; the matches of later rounds that
\* bracket generation leaves completed satisfy the same conditions.
C31_NoSpuriousBye ==
    [][/\ \A i \in MatchIds :
             AutoCompleted(i) =>
                ByeConditions(StoreAfter, i) /\ matches[i].status = "pending"
       /\ (matches = <<>> =>
             \A i \in 1..Len(matches') :
                matches'[i].status = "completed" /\ ~IsFirstRound(StoreAfter, i)
                   => ByeConditions(StoreAfter, i))]_vars


(* --------------------------- cascade termination ----------------------- *)
\* the round of match i: its position without the index within the round
RoundLabel(D, i) ==
    LET bp == D.matches[i].bracket_position IN
    IF MatchRM(bp).ok THEN <<"R", MatchRM(bp).g1>>
    ELSE IF MatchWR(bp).ok THEN <<"WR", MatchWR(bp).g1>>
    ELSE IF MatchLR(bp).ok THEN <<"LR", MatchLR(bp).g1>>
    ELSE <<"M", i>>

\* the number of rounds of the bracket
RoundCount(D) == Cardinality({RoundLabel(D, i) : i \in 1..Len(D.matches)})

\* the matches that the step completes and the matches that it fills
NewlyCompleted ==
    {i \in MatchIds : matches[i].status # "completed" /\ matches'[i].status = "completed"}

NewlyFilled == {row.match_id : row \in AddedRows}

\* a request that leaves its match completed with a winner: the start of an
\* advancement cascade
StartsCascade ==
    /\ Len(matches) = Len(matches') /\ last'.match \in MatchIds
    /\ last'.op \in {"override", "report"} /\ last'.result = "ok"
    /\ matches'[last'.match].status = "completed"
    /\ WinnerOf(StoreAfter, last'.match) # NULL \/ matches'[last'.match].winner_id # NULL

\* match i waits for the bye rule: pending with one occupied side after all
\* its feeders are completed
AwaitsBye(D, i) ==
    /\ ~IsFirstRound(D, i)
    /\ D.matches[i].bracket_position \notin {GF1, GF2}
    /\ D.matches[i].status = "pending"
    /\ RouteFeeders(D, i) # {}
    /\ \A p \in RouteFeeders(D, i) : D.matches[p].status = "completed"
    /\ Cardinality(Sides(D, i)) = 1

\* C32: an advancement cascade ends within the request that starts it: the
\* matches it completes lie in distinct rounds and so do the matches it
\* fills, so that their number is bounded by the round count of the
\* bracket, and it leaves no work behind: no match it has filled or
\* completed still waits for the bye rule, and every match it has completed
\* has its winner in the match the routing names.
C32_CascadeTerminates ==
    [][StartsCascade =>
          /\ \A i, j \in NewlyCompleted :
                RoundLabel(Store, i) = RoundLabel(Store, j) => i = j
          /\ Cardinality(NewlyCompleted) <= RoundCount(Store)
          /\ Cardinality(NewlyFilled) <= RoundCount(Store)
          /\ \A i \in NewlyFilled \cup NewlyCompleted : ~AwaitsBye(StoreAfter, i)
          /\ \A i \in NewlyCompleted :
                (WinnerOf(StoreAfter, i) # NULL
                   /\ Store.matches[i].bracket_position \notin {GF1, GF2}
                   /\ \E bp \in RouteTargets(Store, i) : At(Store, bp) # NULL)
                => \E bp \in RouteTargets(Store, i) :
                      /\ At(Store, bp) # NULL
                      /\ WinnerOf(StoreAfter, i) \in Competitors(StoreAfter, At(Store, bp))]_vars


\* a request has completed a match whose winner was carried on alone: the
\* match it feeds was completed as a bye for that winner by the same request
C32_Witness ==
    /\ last.op \in {"override", "report"} /\ last.result = "ok"
    /\ last.match \in MatchIds /\ last.was.status # "completed"
    /\ matches[last.match].status = "completed"
    /\ WinnerOf(Store, last.match) # NULL
    /\ \E i \in MatchIds :
          /\ last.match \in RouteFeeders(Store, i)
          /\ matches[i].status = "completed"
          /\ WinnerOf(Store, i) = WinnerOf(Store, last.match)
          /\ Cardinality(Sides(Store, i)) = 1


(* -------------------------------- start -------------------------------- *)
\* the statuses in which a start request is refused
NotStartable ==
    {"waiting_for_players", "in_progress", "completed", "disputed", "cancelled"}

\* match mid is started and nothing else changes
OnlyStarted(D, E, mid) ==
    /\ E.matches = [D.matches EXCEPT ![mid].status = "in_progress",
                                     ![mid].games = E.matches[mid].games]
    /\ E.match_players = D.match_players
    /\ E.dartboards = D.dartboards
    /\ E.tournament = D.tournament

\* C33: a start request succeeds only on a pending match, which it sets to
\* in_progress; on a match that is waiting_for_players, in_progress,
\* completed, disputed or cancelled it is rejected with 400 and changes
\* nothing.
C33_StartOnlyPending ==
    [][\A mid \in MatchIds :
          Handled("start", mid) =>
             /\ matches[mid].status \in {"pending"} \cup NotStartable
             /\ matches[mid].status = "pending" =>
                   last'.result = "ok" /\ OnlyStarted(Store, StoreAfter, mid)
             /\ matches[mid].status \in NotStartable =>
                   last'.result = "400" /\ StoreAfter = Store]_vars

\* a start request on a match that waits for its players has been rejected,
\* after another match was started
C33_Witness ==
    /\ last.op = "start" /\ last.result = "400"
    /\ last.was.status = "waiting_for_players"
    /\ matches[last.match].status = "waiting_for_players"
    /\ \E i \in MatchIds : matches[i].status = "in_progress"


(* ------------------------------ first game ----------------------------- *)
\* C34: create_game is invoked exactly once per match, at its transition to
\* in_progress: under any sequence or interleaving of start requests and
\* arrival marks for a match, the match has one initial game once it is in
\* progress, and never more than one.
C34_OneInitialGame ==
    \A i \in MatchIds :
        /\ matches[i].games <= 1
        /\ (matches[i].status = "in_progress" /\ Quiet) => matches[i].games = 1


(* ---------------------------- recorded winner -------------------------- *)
\* the body names a winner or a winning team that is not in match mid
NamesOutsider(D, mid, upd) ==
    \/ upd.winner_id \notin {KeepId, NULL} \cup PlayerIds(D, mid)
    \/ upd.winner_team_id \notin {KeepId, NULL} \cup TeamIds(D, mid)

\* the winner and the winning team of every completed match are occupants
\* of the match, or unset
WinnersAreOccupants(D) ==
    \A i \in 1..Len(D.matches) :
        D.matches[i].status = "completed" =>
            /\ D.matches[i].winner_id \in {NULL} \cup PlayerIds(D, i)
            /\ D.matches[i].winner_team_id \in {NULL} \cup TeamIds(D, i)

\* C35: an override that names a winner_id or a winner_team_id which is not
\* among the occupants or the teams of the match is rejected and changes
\* nothing; in every reachable state the recorded winner of a completed
\* match is one of the occupants of that match, or is unset.
C35_WinnerIsOccupant ==
    [][/\ \A mid \in MatchIds :
             (Handled("override", mid) /\ NamesOutsider(Store, mid, last'.upd)) =>
                last'.result = "400" /\ StoreAfter = Store
       /\ WinnersAreOccupants(StoreAfter)]_vars

\* an override naming a team that is not in the match has been rejected, and
\* a completed match of the bracket records one of its occupants as winner
C35_Witness ==
    /\ last.op = "override" /\ last.result = "400"
    /\ last.upd.winner_team_id \notin {KeepId, NULL} \cup TeamIds(Store, last.match)
    /\ \E i \in MatchIds :
          matches[i].status = "completed" /\ matches[i].winner_id \in PlayerIds(Store, i)


(* --------------------------- single advancement ------------------------ *)
\* the competitors (teams in doubles) of match mid that are occupants of
\* its winner destination
AdvancedFrom(D, mid) ==
    IF Destination(D, mid) = NULL THEN {}
    ELSE (Competitors(D, mid) \cap Competitors(D, Destination(D, mid))) \ {NULL}

\* C36: from every match of a single-elimination or doubles bracket at most
\* one competitor (or team) is ever advanced into its winner destination,
\* under any sequence of reports and overrides on that match.
C36_SingleAdvancement ==
    \A mid \in MatchIds : Cardinality(AdvancedFrom(Store, mid)) <= 1


(* ------------------------------ board leaks ---------------------------- *)
\* C37: a match never consumes two boards: under every interleaving of
\* assign and auto-assign requests on one match, once all requests have
\* committed no board is unavailable while no match references it.
C37_NoLostBoard ==
    Quiet => \A b \in Boards : ~dartboards[b] => Holders(b) # {}


(* ------------------------------- progress ------------------------------ *)
\* every match is completed and so is the tournament
BracketDone ==
    /\ Generated
    /\ AllCompleted(Store, MatchIds)
    /\ tournament.status = "completed"

\* some match is pending with fewer than two occupants
Starved ==
    \E mid \in MatchIds :
        /\ matches[mid].status = "pending"
        /\ Cardinality(PlayerIds(Store, mid)) < 2

\* C38: in a single-elimination bracket generated for N >= 2 entrants, when
\* every match holding two occupants is eventually completed with one of
\* them as winner and no other override is issued, eventually every match
\* is completed and the tournament is completed; no match stays pending
\* forever with fewer than two occupants.
C38_Progress ==
    /\ Generated ~> BracketDone
    /\ ~<>[]Starved

\* a bracket with byes has been played to the end
C38_Witness ==
    /\ BracketDone
    /\ Len(matches) = 7
    /\ \E mid \in MatchIds : Cardinality(PlayerIds(Store, mid)) = 1


(* --------------------- who completes the tournament -------------------- *)
\* match mid is completed and has a winning player or team
HasWon(D, mid) ==
    /\ D.matches[mid].status = "completed"
    /\ D.matches[mid].winner_id # NULL \/ D.matches[mid].winner_team_id # NULL

\* the step leaves match mid completed with a winner, which it was not
\* before
CompletesWithWinner(mid) ==
    /\ Len(matches) = Len(matches') /\ mid \in MatchIds
    /\ ~HasWon(Store, mid) /\ HasWon(Store', mid)

\* C39: the tournament status becomes completed only in a request that
\* completes the bracket's terminal match with a winner; generation with its
\* byes, a request that leaves the terminal match uncompleted, and the
\* completion of a round-robin match never complete the tournament.
C39_OnlyTerminalCompletes ==
    [][TournamentCompletes /\ last'.op # "tournament" =>
          /\ Generated
          /\ \E mid \in MatchIds : CompletesWithWinner(mid) /\ IsTerminal(Store', mid)]_vars

\* the final of a two-round bracket was completed with a winner and the
\* tournament with it
C39_Witness ==
    /\ tournament.status = "completed"
    /\ \E mid \in MatchIds :
          /\ last.match = mid /\ last.result = "ok" /\ last.was.status # "completed"
          /\ IsTerminal(Store, mid) /\ matches[mid].round_number = 2
          /\ matches[mid].status = "completed" /\ WinnerOf(Store, mid) # NULL


(* ------------------------- feeders and routing ------------------------- *)
\* the bracket with two stand-in occupants in match p, the first of them
\* its winner
WithResult(D, p) ==
    [D EXCEPT !.match_players = <<NewMatchPlayer(p, 1, 1, NULL, NULL),
                                  NewMatchPlayer(p, 2, 2, NULL, NULL)>>,
              !.matches[p].winner_id = 1]

\* the positions to which the advancement sends the winner or the loser of
\* match p
AdvancedTo(D, p) ==
    LET m  == D.matches[p]
        rm == MatchRM(m.bracket_position)
        ps == Placements(WithResult(D, p), p)
    IN  IF rm.ok THEN {FormatRM(m.round_number + 1, NextIndex(rm.g2))}
        ELSE {ps[k].bracket_position : k \in 1..Len(ps)}

\* the feeder matches that the bye-cascade check computes for match d
ComputedFeeders(D, d) ==
    LET bp == D.matches[d].bracket_position
        rm == MatchRM(bp)
    IN  IF rm.ok THEN FeedersRM(D, rm.g1, rm.g2)
        ELSE {i \in 1..Len(D.matches) :
                 D.matches[i].bracket_position \in FeederPositions(D, bp)}

\* a position of the R, WR or LR grammar
IsRoundPosition(bp) == MatchRM(bp).ok \/ MatchWR(bp).ok \/ MatchLR(bp).ok

====
